---- MODULE Spec2Model ----
(***************************************************************************)
(* Model of the Odoo inventory facade in list_inventory_lambda.py: the     *)
(* dispatcher lambda_handler, the authenticator authenticate_request and   *)
(* the five domain handlers, run against a small model of the ERP's        *)
(* product.product and product.tag tables.                                 *)
(*                                                                         *)
(* One action handles one whole HTTP request.  A request, the ERP's        *)
(* behaviour during it (session id returned by authenticate, the RPC call  *)
(* that raises, if any), the response and the log of the steps taken are   *)
(* kept in the state so that properties can relate them.                   *)
(***************************************************************************)
EXTENDS Integers, Sequences, FiniteSets, TLC

VARIABLES
    products,   \* ERP table product.product: sequence of records, id = index
    tags,       \* ERP table product.tag: sequence of records, id = index
    CLIENT_ID,      \* configured shared client id, "" when not configured
    CLIENT_SECRET,  \* configured shared client secret, "" when not configured
    req,        \* the last request (event) handled
    env,        \* the ERP's behaviour during the last request
    resp,       \* the response returned for the last request
    log,        \* steps taken while handling the last request, in order
    inflight    \* the invocations the host runs in parallel, each with its
                \* request, its local variables and its position

vars == <<products, tags, CLIENT_ID, CLIENT_SECRET, req, env, resp, log, inflight>>

(***************************************************************************)
(* Bounds of the model.                                                    *)
(***************************************************************************)
MaxProducts == 3
MaxTags == 2

(***************************************************************************)
(* Strings are sequences of one-character strings, so that str.strip(),    *)
(* str.lower(), float() and the ERP's ilike can be computed.               *)
(***************************************************************************)
Min(a, b) == IF a < b THEN a ELSE b

IsSpace(c) == c = " "

RECURSIVE LStrip(_)
LStrip(s) == IF s # <<>> /\ IsSpace(Head(s)) THEN LStrip(Tail(s)) ELSE s

RECURSIVE RStrip(_)
RStrip(s) ==
    IF s # <<>> /\ IsSpace(s[Len(s)]) THEN RStrip(SubSeq(s, 1, Len(s) - 1)) ELSE s

\* str.strip()
Strip(s) == RStrip(LStrip(s))

LowerChar(c) ==
    CASE c = "A" -> "a"
      [] c = "B" -> "b"
      [] c = "X" -> "x"
      [] OTHER -> c

\* str.lower() on a string
Lower(s) == [i \in 1..Len(s) |-> LowerChar(s[i])]

\* a header name left as it is
LowerKey_identity(k) == k

\* str.lower() on a header name (header names are kept as TLA+ strings)
LowerKey(k) ==
    CASE k = "X-Client-Id" -> "x-client-id"
      [] k = "X-CLIENT-SECRET" -> "x-client-secret"
      [] k = "Content-Type" -> "content-type"
      [] OTHER -> k

\* s occurs in t as a contiguous substring
IsSubstring(s, t) ==
    \E i \in 0..(Len(t) - Len(s)) : SubSeq(t, i + 1, i + Len(s)) = s

\* the ERP's ilike operator: case-insensitive substring match
ILike(value, term) == IsSubstring(Lower(term), Lower(value))

DigitVal(c) ==
    CASE c = "0" -> 0 [] c = "1" -> 1 [] c = "2" -> 2 [] c = "3" -> 3
      [] c = "4" -> 4 [] c = "5" -> 5 [] c = "6" -> 6 [] c = "7" -> 7
      [] c = "8" -> 8 [] c = "9" -> 9 [] OTHER -> -1

AllDigits(s) == s # <<>> /\ \A i \in 1..Len(s) : DigitVal(s[i]) >= 0

RECURSIVE DigitsVal(_)
DigitsVal(s) ==
    IF s = <<>> THEN 0
    ELSE 10 * DigitsVal(SubSeq(s, 1, Len(s) - 1)) + DigitVal(s[Len(s)])

\* Parsing of a numeric string by float() / int(): surrounding whitespace is
\* ignored, an optional sign is followed by digits.
ParseNum(s) ==
    LET t == Strip(s)
        neg == t # <<>> /\ Head(t) = "-"
        pos == t # <<>> /\ Head(t) = "+"
        d == IF neg \/ pos THEN Tail(t) ELSE t
    IN  IF AllDigits(d)
        THEN [ok |-> TRUE, n |-> IF neg THEN 0 - DigitsVal(d) ELSE DigitsVal(d)]
        ELSE [ok |-> FALSE, n |-> 0]

(***************************************************************************)
(* JSON values, as json.loads returns them.                                *)
(***************************************************************************)
JNum(n) == [t |-> "num", n |-> n, s |-> <<>>, l |-> <<>>]
JStr(s) == [t |-> "str", n |-> 0, s |-> s, l |-> <<>>]
JBool(b) == [t |-> "bool", n |-> IF b THEN 1 ELSE 0, s |-> <<>>, l |-> <<>>]
JList(l) == [t |-> "list", n |-> 0, s |-> <<>>, l |-> l]
JNull == [t |-> "null", n |-> 0, s |-> <<>>, l |-> <<>>]

\* Python truth value of a JSON value
Truthy(v) ==
    CASE v.t = "num" -> v.n # 0
      [] v.t = "str" -> v.s # <<>>
      [] v.t = "bool" -> v.n = 1
      [] v.t = "list" -> v.l # <<>>
      [] OTHER -> FALSE

\* float(v) and int(v): a number or the exception raised
ToNumber(v) ==
    CASE v.t = "num" -> [ok |-> TRUE, n |-> v.n, exc |-> ""]
      [] v.t = "bool" -> [ok |-> TRUE, n |-> v.n, exc |-> ""]
      [] v.t = "str" ->
            IF ParseNum(v.s).ok
            THEN [ok |-> TRUE, n |-> ParseNum(v.s).n, exc |-> ""]
            ELSE [ok |-> FALSE, n |-> 0, exc |-> "ValueError"]
      [] OTHER -> [ok |-> FALSE, n |-> 0, exc |-> "TypeError"]

(***************************************************************************)
(* The ERP (external collaborator): execute(model, method, args) on the    *)
(* tables product.product and product.tag.  A record's id is its index.    *)
(***************************************************************************)
Range(f) == {f[i] : i \in DOMAIN f}

RECURSIVE SortedSeq(_)
\* the elements of a finite set of integers in increasing order
SortedSeq(S) ==
    IF S = {} THEN <<>>
    ELSE LET m == CHOOSE x \in S : \A y \in S : x <= y
         IN  <<m>> \o SortedSeq(S \ {m})

CharRank(c) ==
    CASE c = " " -> 0 [] c = "A" -> 1 [] c = "B" -> 2 [] c = "X" -> 3
      [] c = "a" -> 4 [] c = "b" -> 5 [] c = "x" -> 6 [] OTHER -> 7

RECURSIVE StrLess(_, _)
\* lexicographic order on strings
StrLess(s, t) ==
    IF t = <<>> THEN FALSE
    ELSE IF s = <<>> THEN TRUE
    ELSE IF CharRank(Head(s)) # CharRank(Head(t))
         THEN CharRank(Head(s)) < CharRank(Head(t))
         ELSE StrLess(Tail(s), Tail(t))

\* the order 'name' of a search: by name, ties by id
NameBefore(table, i, j) ==
    \/ StrLess(table[i].name, table[j].name)
    \/ table[i].name = table[j].name /\ i < j

RECURSIVE SortedByName(_, _)
SortedByName(table, S) ==
    IF S = {} THEN <<>>
    ELSE LET m == CHOOSE x \in S : \A y \in S \ {x} : NameBefore(table, x, y)
         IN  <<m>> \o SortedByName(table, S \ {m})

\* a leaf (field, operator, value) of a search domain, and the OR marker
Clause(f, op, v) == [f |-> f, op |-> op, v |-> v]
OrMarker == [f |-> "|", op |-> "|", v |-> <<>>]

\* one leaf of a domain on the record table[id]
MatchClause(table, id, c) ==
    CASE c.f = "id" /\ c.op = "in" -> id \in Range(c.v)
      [] c.f = "name" /\ c.op = "=" -> table[id].name = c.v
      [] c.f = "name" /\ c.op = "ilike" -> ILike(table[id].name, c.v)
      [] c.f = "default_code" /\ c.op = "ilike" ->
            table[id].default_code # <<>> /\ ILike(table[id].default_code, c.v)
      [] c.f = "type" /\ c.op = "=" -> table[id].type = c.v
      [] c.f = "categ_id" /\ c.op = "=" -> table[id].categ_id = c.v
      [] OTHER -> FALSE

RECURSIVE EvalExpr(_, _, _, _)
\* value of the prefix-notation expression of domain d that starts at d[i],
\* and the index after it
EvalExpr(table, id, d, i) ==
    IF i > Len(d) THEN [val |-> TRUE, next |-> i]
    ELSE IF d[i].f = "|"
    THEN LET a == EvalExpr(table, id, d, i + 1)
             b == EvalExpr(table, id, d, a.next)
         IN  [val |-> a.val \/ b.val, next |-> b.next]
    ELSE [val |-> MatchClause(table, id, d[i]), next |-> i + 1]

RECURSIVE EvalFrom(_, _, _, _)
\* the expressions of a domain are joined by an implicit AND
EvalFrom(table, id, d, i) ==
    IF i > Len(d) THEN TRUE
    ELSE LET e == EvalExpr(table, id, d, i)
         IN  e.val /\ EvalFrom(table, id, d, e.next)

Matching(table, d) == {id \in DOMAIN table : EvalFrom(table, id, d, 1)}

\* execute(model, 'search', [domain], {limit, offset, order}); limit 0 is
\* no limit
ErpSearch(table, d, limit, offset, byName) ==
    LET all == IF byName THEN SortedByName(table, Matching(table, d))
               ELSE SortedSeq(Matching(table, d))
        last == IF limit = 0 THEN Len(all) ELSE Min(Len(all), offset + limit)
    IN  SubSeq(all, offset + 1, last)

\* execute(model, 'search_count', [domain])
ErpSearchCount(table, d) == Cardinality(Matching(table, d))

\* value of a field of a record as 'read' returns it
FieldValue(table, id, f) ==
    CASE f = "id" -> id
      [] f = "name" -> table[id].name
      [] f = "color" -> table[id].color
      [] f = "list_price" -> table[id].list_price
      [] f = "standard_price" -> table[id].standard_price
      [] f = "product_tag_ids" -> SortedSeq(table[id].product_tag_ids)
      [] f = "currency_id" -> table[id].currency_id
      [] OTHER -> <<>>

\* execute(model, 'read', [ids, fields]): one record per id, with the
\* requested fields and the id
ErpRead(table, ids, fields) ==
    [i \in 1..Len(ids) |->
        [f \in fields \cup {"id"} |-> FieldValue(table, ids[i], f)]]

\* the tag set left by the commands of a product_tag_ids value:
\* (6, 0, ids) replaces the set by ids
ApplyTagCommands(cmds) ==
    IF cmds = <<>> THEN {} ELSE Range(cmds[Len(cmds)][3])

\* execute('product.product', 'create', [vals]): fields absent from vals
\* take the ERP's defaults
ErpCreateProduct(table, vals) ==
    Append(table,
        [name |-> vals.name,
         list_price |-> vals.list_price,
         standard_price |->
            IF "standard_price" \in DOMAIN vals THEN vals.standard_price ELSE 0,
         type |-> vals.type,
         sale_ok |-> vals.sale_ok,
         purchase_ok |-> vals.purchase_ok,
         product_tag_ids |-> ApplyTagCommands(vals.product_tag_ids),
         default_code |-> <<>>,
         categ_id |-> 1,
         currency_id |-> <<1, "USD">>])

\* execute('product.tag', 'create', [vals])
ErpCreateTag(table, vals) ==
    Append(table, [name |-> vals.name, color |-> vals.color])

\* execute('product.product', 'write', [[id], vals])
ErpWriteProduct(table, id, vals) ==
    [table EXCEPT ![id] =
        [f \in DOMAIN table[id] |->
            IF f \in DOMAIN vals THEN vals[f] ELSE table[id][f]]]

(***************************************************************************)
(* Requests, responses and the log of steps.                               *)
(*                                                                         *)
(* A request is [method, rawPath, headers, query, body]: rawPath is the    *)
(* sequence of the non-empty segments of the path, headers a sequence of   *)
(* <<name, value>> pairs with distinct names (a dict in insertion order),  *)
(* query a function from parameter names to strings, body                  *)
(* [kind |-> "none" | "badjson" | "scalar" | "obj", f |-> key -> JSON       *)
(* value]: absent, not JSON, a JSON number/true/false/null, a JSON object. *)
(* env is [uid |-> "ok" | "false" | "raise", fault |-> k]: what the ERP's  *)
(* authenticate returns, and the execute call (counted from 1 within the   *)
(* request) that raises, 0 for none.                                       *)
(***************************************************************************)
Ev(op, model, arg) == [op |-> op, model |-> model, arg |-> arg]

\* what a handler hands back: a response or an escaping exception, the log
\* and the ERP tables it leaves
Return(r, lg, P, T) ==
    [raised |-> FALSE, resp |-> r, log |-> lg, products |-> P, tags |-> T]
Raise(lg, P, T) ==
    [raised |-> TRUE, resp |-> <<>>, log |-> lg, products |-> P, tags |-> T]

ErrorResponse(status, msg) ==
    [statusCode |-> status, body |-> [error |-> msg]]

JsonHeaders == {"Access-Control-Allow-Origin", "Content-Type"}

\* the value the header loop of authenticate_request leaves for the header
\* called name: the value of the last header whose lowercased name is name,
\* None when there is none
RECURSIVE ReceivedHeader(_, _)
ReceivedHeader(hs, name) ==
    IF hs = <<>> THEN [none |-> TRUE, v |-> ""]
    ELSE IF LowerKey(hs[Len(hs)][1]) = name
         THEN [none |-> FALSE, v |-> hs[Len(hs)][2]]
         ELSE ReceivedHeader(SubSeq(hs, 1, Len(hs) - 1), name)

\* a comparison of the client id alone
SecretMatches_idOnly(hs) ==
    LET id == ReceivedHeader(hs, "x-client-id")
    IN  ~id.none /\ id.v = CLIENT_ID

\* line 137: received_client_id == CLIENT_ID and
\*           received_client_secret == CLIENT_SECRET
SecretMatches(hs) ==
    LET id == ReceivedHeader(hs, "x-client-id")
        sec == ReceivedHeader(hs, "x-client-secret")
    IN  /\ ~id.none /\ id.v = CLIENT_ID
        /\ ~sec.none /\ sec.v = CLIENT_SECRET

\* an authenticator that takes whatever the ERP answers for a session
authenticate_request_anyUid(r, e) ==
    LET checked == CLIENT_ID # "" /\ CLIENT_SECRET # ""
        lg0 == IF checked THEN <<Ev("check_secret", "", <<>>)>> ELSE <<>>
        lg1 == Append(lg0, Ev("authenticate", "", <<>>))
    IN  IF checked /\ ~SecretMatches(r.headers)
        THEN [ok |-> FALSE, log |-> lg0,
              resp |-> ErrorResponse(401, "Unauthorized")]
        ELSE [ok |-> TRUE, log |-> lg1, resp |-> <<>>]

\* an authenticator that checks the headers as soon as a client id is
\* configured
authenticate_request_idConfigured(r, e) ==
    LET checked == CLIENT_ID # ""
        lg0 == IF checked THEN <<Ev("check_secret", "", <<>>)>> ELSE <<>>
        lg1 == Append(lg0, Ev("authenticate", "", <<>>))
    IN  IF checked /\ ~SecretMatches(r.headers)
        THEN [ok |-> FALSE, log |-> lg0,
              resp |-> ErrorResponse(401, "Unauthorized")]
        ELSE IF e.uid # "ok"
        THEN [ok |-> FALSE, log |-> lg1,
              resp |-> ErrorResponse(500, "Could not authenticate with Odoo: {e}")]
        ELSE [ok |-> TRUE, log |-> lg1, resp |-> <<>>]

\* authenticate_request(event): [ok, resp, log]
authenticate_request(r, e) ==
    LET checked == CLIENT_ID # "" /\ CLIENT_SECRET # ""
        lg0 == IF checked THEN <<Ev("check_secret", "", <<>>)>> ELSE <<>>
        lg1 == Append(lg0, Ev("authenticate", "", <<>>))
    IN  IF checked /\ ~SecretMatches(r.headers)
        THEN [ok |-> FALSE, log |-> lg0,
              resp |-> ErrorResponse(401, "Unauthorized")]
        ELSE IF e.uid # "ok"
        THEN [ok |-> FALSE, log |-> lg1,
              resp |-> ErrorResponse(500, "Could not authenticate with Odoo: {e}")]
        ELSE [ok |-> TRUE, log |-> lg1, resp |-> <<>>]

(***************************************************************************)
(* A handler is a chain of stages.  Each stage takes the context c of the  *)
(* request: the ERP tables P and T as they stand, the request r, the ERP's *)
(* behaviour e, the log so far, the number n of execute calls issued so    *)
(* far, and the handler's local variables v, ids, rec.                     *)
(***************************************************************************)
Ctx(P, T, r, e, lg) ==
    [P |-> P, T |-> T, r |-> r, e |-> e, log |-> lg, n |-> 0,
     v |-> <<>>, ids |-> <<>>, rec |-> <<>>]

\* return of a response / an exception escaping the handler
Done(c, response) == Return(response, c.log, c.P, c.T)
Raised(c) == Raise(c.log, c.P, c.T)

\* a step that is not an execute call, and an execute call
Logged(c, ev) == [c EXCEPT !.log = Append(c.log, ev)]
Executed(c, ev) == [c EXCEPT !.log = Append(c.log, ev), !.n = c.n + 1]

\* the execute call just issued raises
Faulty(c) == c.e.fault = c.n

\* data.get(key, default)
Get(data, key, default) == IF key \in DOMAIN data THEN data[key] ELSE default

(***************************************************************************)
(* handle_create_tag: POST /tags with a name.                              *)
(***************************************************************************)
CreateTagFailed == ErrorResponse(500, "Could not create tag: {e}")

\* lines 546-575: create, answer 201 with the record
CreateTag_create(c) ==
    LET c1 == Executed(c, Ev("create", "product.tag", c.v))
    IN  IF Faulty(c1) THEN Done(c1, CreateTagFailed)
        ELSE Return([statusCode |-> 201,
                     headers |-> JsonHeaders,
                     body |-> [success |-> TRUE,
                               message |-> "Tag created successfully",
                               data |-> [id |-> Len(c.T) + 1,
                                         name |-> c.v.name,
                                         color |-> c.v.color]]],
                    c1.log, c.P, ErpCreateTag(c.T, c.v))

\* a duplicate check on a field that tags do not have
CreateTagDomain_wrongField(tag_name) == <<Clause("default_code", "=", tag_name)>>

\* line 537: the domain of the duplicate check
CreateTagDomain(tag_name) == <<Clause("name", "=", tag_name)>>

\* lines 532-544: the duplicate check
CreateTag_check(c) ==
    LET c1 == Executed(c, Ev("search", "product.tag", CreateTagDomain(c.v.name)))
    IN  IF Faulty(c1) THEN Done(c1, CreateTagFailed)
        ELSE IF ErpSearch(c.T, CreateTagDomain(c.v.name), 0, 0, FALSE) # <<>>
        THEN Done(c1, ErrorResponse(409, "Tag already exists"))
        ELSE CreateTag_create(c1)

\* the values handed to create, with the name as it was received
TagData_untrimmed(data) ==
    [name |-> data.name.s, color |-> Get(data, "color", JNum(0)).n]

\* lines 516 and 524, 548-551: the values handed to create
TagData(data) ==
    [name |-> Strip(data.name.s), color |-> Get(data, "color", JNum(0)).n]

\* lines 499-530: the body and the name
CreateTag_parse(c) ==
    LET data == c.r.body.f
        c1 == Logged(c, Ev("json.loads", "", <<>>))
    IN  IF c.r.body.kind = "none"
        THEN Done(c, ErrorResponse(400, "Request body is required"))
        ELSE IF c.r.body.kind = "badjson"
        THEN Done(c1, ErrorResponse(400, "Invalid JSON in request body"))
        ELSE IF c.r.body.kind = "scalar"
        THEN Raised(c1)            \* TypeError: argument is not iterable
        ELSE IF "name" \notin DOMAIN data
        THEN Done(c1, ErrorResponse(400, "Tag name is required"))
        ELSE IF data.name.t # "str"
        THEN Raised(c1)            \* AttributeError: no attribute 'strip'
        ELSE IF Strip(data.name.s) = <<>>
        THEN Done(c1, ErrorResponse(400, "Tag name cannot be empty"))
        ELSE CreateTag_check([c1 EXCEPT !.v = TagData(data)])

handle_create_tag(P, T, r, e) ==
    LET a == authenticate_request(r, e)
    IN  IF ~a.ok THEN Return(a.resp, a.log, P, T)
        ELSE CreateTag_parse(Ctx(P, T, r, e, a.log))

(***************************************************************************)
(* handle_create_product: POST /products with a name and a price (or the   *)
(* legacy cost).  c.v holds product_name, sales_price, has_cost_price,     *)
(* cost_price and tag_ids.                                                 *)
(***************************************************************************)
CreateProductFailed == ErrorResponse(500, "Could not create product: {e}")

\* lines 733-752
CreateProduct_respond(c, product_tags) ==
    Done(c, [statusCode |-> 201,
             headers |-> JsonHeaders,
             body |-> [success |-> TRUE,
                       message |-> "Product created successfully",
                       data |-> [id |-> c.rec.id,
                                 name |-> c.rec.name,
                                 cost_price |-> c.rec.standard_price,
                                 sale_price |-> c.rec.list_price,
                                 tags |-> product_tags,
                                 can_be_sold |-> TRUE,
                                 can_be_purchased |-> FALSE]]])

\* a response that leaves the tags of the created product out
CreateProduct_tags_noRead(c) == CreateProduct_respond(c, <<>>)

\* lines 721-729: the tag details of the created product
CreateProduct_tags(c) ==
    LET c1 == Executed(c, Ev("read", "product.tag", c.rec.product_tag_ids))
    IN  IF c.rec.product_tag_ids = <<>> THEN CreateProduct_respond(c, <<>>)
        ELSE IF Faulty(c1) THEN Done(c1, CreateProductFailed)
        ELSE CreateProduct_respond(
                c1, ErpRead(c.T, c.rec.product_tag_ids, {"id", "name", "color"}))

\* lines 713-719: the read-back of the created product, whose id is the
\* last of the table
CreateProduct_read(c) ==
    LET c1 == Executed(c, Ev("read", "product.product", <<Len(c.P)>>))
    IN  IF Faulty(c1) THEN Done(c1, CreateProductFailed)
        ELSE CreateProduct_tags(
                [c1 EXCEPT !.rec =
                    ErpRead(c.P, <<Len(c.P)>>,
                            {"id", "name", "standard_price", "list_price",
                             "product_tag_ids"})[1]])

\* values that take the type and the flags from the request body
ProductData_fromBody(v, data) ==
    LET base == [name |-> v.product_name,
                 list_price |-> v.sales_price,
                 type |-> Get(data, "type", JStr("product")).s,
                 sale_ok |-> TRUE,
                 purchase_ok |-> Truthy(Get(data, "purchase_ok", JBool(FALSE))),
                 product_tag_ids |->
                    IF Truthy(v.tag_ids) THEN << <<6, 0, v.tag_ids.l>> >> ELSE <<>>]
    IN  base

\* lines 694-705: the values handed to create
ProductData(v, data) ==
    LET base == [name |-> v.product_name,
                 list_price |-> v.sales_price,
                 type |-> "product",
                 sale_ok |-> TRUE,
                 purchase_ok |-> FALSE,
                 product_tag_ids |->
                    IF Truthy(v.tag_ids) THEN << <<6, 0, v.tag_ids.l>> >> ELSE <<>>]
    IN  IF v.has_cost_price
        THEN [f \in DOMAIN base \cup {"standard_price"} |->
                IF f = "standard_price" THEN v.cost_price ELSE base[f]]
        ELSE base

\* lines 693-711: create
CreateProduct_create(c) ==
    LET c1 == Executed(c, Ev("create", "product.product",
                             ProductData(c.v, c.r.body.f)))
    IN  IF Faulty(c1) THEN Done(c1, CreateProductFailed)
        ELSE CreateProduct_read(
                [c1 EXCEPT !.P = ErpCreateProduct(c.P, ProductData(c.v, c.r.body.f))])

\* a duplicate check on the lowercased name
CreateProductDomain_lower(product_name) ==
    <<Clause("name", "=", Lower(product_name))>>

\* line 684: the domain of the duplicate check
CreateProductDomain(product_name) == <<Clause("name", "=", product_name)>>

\* a duplicate check made after the create
CreateProduct_check_late(c) ==
    LET data == ProductData(c.v, c.r.body.f)
        c1 == Executed(c, Ev("create", "product.product", data))
        c2 == Executed(c1, Ev("search", "product.product",
                              CreateProductDomain(c.v.product_name)))
        created == [c2 EXCEPT !.P = ErpCreateProduct(c.P, data)]
    IN  IF Faulty(c1) THEN Done(c1, CreateProductFailed)
        ELSE IF Faulty(c2) THEN Done(created, CreateProductFailed)
        ELSE IF ErpSearch(c.P, CreateProductDomain(c.v.product_name), 0, 0, FALSE)
                    # <<>>
        THEN Done(created, ErrorResponse(409, "Product already exists"))
        ELSE CreateProduct_read(created)

\* lines 679-691: the duplicate check
CreateProduct_check(c) ==
    LET c1 == Executed(c, Ev("search", "product.product",
                             CreateProductDomain(c.v.product_name)))
    IN  IF Faulty(c1) THEN Done(c1, CreateProductFailed)
        ELSE IF ErpSearch(c.P, CreateProductDomain(c.v.product_name), 0, 0, FALSE)
                    # <<>>
        THEN Done(c1, ErrorResponse(409, "Product already exists"))
        ELSE CreateProduct_create(c1)

\* lines 660-671: every tag id must exist; the search is not inside the try
\* that catches Exception
CreateProduct_tagIds(c) ==
    LET dom == <<Clause("id", "in", c.v.tag_ids.l)>>
        c1 == Executed(c, Ev("search", "product.tag", dom))
    IN  IF ~Truthy(c.v.tag_ids) THEN CreateProduct_check(c)
        ELSE IF Faulty(c1) THEN Raised(c1)
        ELSE IF Len(ErpSearch(c.T, dom, 0, 0, FALSE)) # Len(c.v.tag_ids.l)
        THEN Done(c1, ErrorResponse(400, "One or more tag IDs do not exist"))
        ELSE CreateProduct_check(c1)

\* line 624: float(data.get('price', data.get('cost', 0)))
SalesPrice(data) == ToNumber(Get(data, "price", Get(data, "cost", JNum(0))))

\* lines 615-651: the local variables of a create whose body is valid
ProductValues(data) ==
    [product_name |-> Strip(data.name.s),
     sales_price |-> SalesPrice(data).n,
     has_cost_price |-> "cost_price" \in DOMAIN data,
     cost_price |-> ToNumber(Get(data, "cost_price", JNull)).n,
     tag_ids |-> Get(data, "tag_ids", JList(<<>>))]

\* lines 622-658: the price, the cost price and the type of tag_ids
CreateProduct_validate(c) ==
    LET data == c.r.body.f
        sales_price == SalesPrice(data)
        has_cost_price == "cost_price" \in DOMAIN data
        cost_price == ToNumber(Get(data, "cost_price", JNull))
        tag_ids == Get(data, "tag_ids", JList(<<>>))
    IN  IF ~sales_price.ok
        THEN Done(c, ErrorResponse(400, "Price must be a valid number"))
        ELSE IF sales_price.n < 0
        THEN Done(c, ErrorResponse(400, "Price must be a positive number"))
        ELSE IF has_cost_price /\ ~cost_price.ok
        THEN Done(c, ErrorResponse(400, "Cost price must be a valid number"))
        ELSE IF has_cost_price /\ cost_price.n < 0
        THEN Done(c, ErrorResponse(400, "Cost price must be a positive number"))
        ELSE IF Truthy(tag_ids) /\ tag_ids.t # "list"
        THEN Done(c, ErrorResponse(400, "tag_ids must be an array of tag IDs"))
        ELSE CreateProduct_tagIds([c EXCEPT !.v = ProductValues(data)])

\* lines 592-620: the body, the required fields and the name
CreateProduct_parse(c) ==
    LET data == c.r.body.f
        c1 == Logged(c, Ev("json.loads", "", <<>>))
    IN  IF c.r.body.kind = "none"
        THEN Done(c, ErrorResponse(400, "Request body is required"))
        ELSE IF c.r.body.kind = "badjson"
        THEN Done(c1, ErrorResponse(400, "Invalid JSON in request body"))
        ELSE IF c.r.body.kind = "scalar"
        THEN Raised(c1)            \* TypeError: argument is not iterable
        ELSE IF "name" \notin DOMAIN data
        THEN Done(c1, ErrorResponse(400, "name is required"))
        ELSE IF "cost" \notin DOMAIN data /\ "price" \notin DOMAIN data
        THEN Done(c1, ErrorResponse(400, "price is required"))
        ELSE IF data.name.t # "str"
        THEN Raised(c1)            \* AttributeError: no attribute 'strip'
        ELSE IF Strip(data.name.s) = <<>>
        THEN Done(c1, ErrorResponse(400, "Product name cannot be empty"))
        ELSE CreateProduct_validate(c1)

handle_create_product(P, T, r, e) ==
    LET a == authenticate_request(r, e)
    IN  IF ~a.ok THEN Return(a.resp, a.log, P, T)
        ELSE CreateProduct_parse(Ctx(P, T, r, e, a.log))

(***************************************************************************)
(* handle_update_product: PUT /products, or POST /products with            *)
(* product_name and price.  c.v holds product_name, new_price and          *)
(* update_cost_price, c.ids the ids the name resolved to, c.rec the record *)
(* read before the write.                                                  *)
(***************************************************************************)
UpdateProductFailed == ErrorResponse(500, "Could not update product: {e}")

\* lines 909-928
UpdateProduct_respond(c, updated_product, product_tags) ==
    Done(c, [statusCode |-> 200,
             headers |-> JsonHeaders,
             body |-> [success |-> TRUE,
                       message |-> "Product price updated successfully",
                       data |-> [id |-> updated_product.id,
                                 name |-> updated_product.name,
                                 previous_price |-> c.rec.list_price,
                                 new_price |-> updated_product.list_price,
                                 cost_price |-> updated_product.standard_price,
                                 cost_price_updated |-> c.v.update_cost_price,
                                 tags |-> product_tags]]])

\* lines 897-905: the tag details of the updated product
UpdateProduct_tags(c, updated_product) ==
    LET c1 == Executed(c, Ev("read", "product.tag", updated_product.product_tag_ids))
    IN  IF updated_product.product_tag_ids = <<>>
        THEN UpdateProduct_respond(c, updated_product, <<>>)
        ELSE IF Faulty(c1) THEN Done(c1, UpdateProductFailed)
        ELSE UpdateProduct_respond(
                c1, updated_product,
                ErpRead(c.T, updated_product.product_tag_ids,
                        {"id", "name", "color"}))

\* lines 889-895: the read-back of the updated product
UpdateProduct_readBack(c) ==
    LET c1 == Executed(c, Ev("read", "product.product", c.ids))
    IN  IF Faulty(c1) THEN Done(c1, UpdateProductFailed)
        ELSE UpdateProduct_tags(
                c1, ErpRead(c.P, c.ids,
                            {"id", "name", "list_price", "standard_price",
                             "product_tag_ids"})[1])

\* values that always carry the cost price
UpdateData_withCost(new_price, update_cost_price) ==
    [list_price |-> new_price, standard_price |-> new_price]

\* lines 874-880: the values handed to write
UpdateData(new_price, update_cost_price) ==
    IF Truthy(update_cost_price)
    THEN [list_price |-> new_price, standard_price |-> new_price]
    ELSE [list_price |-> new_price]

\* an update that writes the sales price and the cost price in two calls
UpdateProduct_write_twice(c) ==
    LET vals == UpdateData(c.v.new_price, c.v.update_cost_price)
        c1 == Executed(c, Ev("write", "product.product",
                             [id |-> c.ids[1], vals |-> [list_price |-> c.v.new_price]]))
        c2 == Executed(c1, Ev("write", "product.product",
                              [id |-> c.ids[1], vals |-> vals]))
    IN  IF Faulty(c1) \/ Faulty(c2) THEN Done(c2, UpdateProductFailed)
        ELSE UpdateProduct_readBack(
                [c2 EXCEPT !.P = ErpWriteProduct(c.P, c.ids[1], vals)])

\* lines 873-887: write
UpdateProduct_write(c) ==
    LET vals == UpdateData(c.v.new_price, c.v.update_cost_price)
        c1 == Executed(c, Ev("write", "product.product",
                             [id |-> c.ids[1], vals |-> vals]))
    IN  IF Faulty(c1) THEN Done(c1, UpdateProductFailed)
        ELSE UpdateProduct_readBack(
                [c1 EXCEPT !.P = ErpWriteProduct(c.P, c.ids[1], vals)])

\* lines 863-871: the current record of the one product found
UpdateProduct_current(c) ==
    LET c1 == Executed(c, Ev("read", "product.product", <<c.ids[1]>>))
    IN  IF Faulty(c1) THEN Done(c1, UpdateProductFailed)
        ELSE UpdateProduct_write(
                [c1 EXCEPT !.ids = <<c.ids[1]>>,
                           !.rec = ErpRead(c.P, <<c.ids[1]>>,
                                           {"id", "name", "list_price",
                                            "standard_price"})[1]])

\* lines 846-861: several products found
UpdateProduct_ambiguous(c) ==
    LET c1 == Executed(c, Ev("read", "product.product", c.ids))
        found == ErpRead(c.P, c.ids, {"id", "name"})
    IN  IF Faulty(c1) THEN Done(c1, UpdateProductFailed)
        ELSE Done(c1, [statusCode |-> 400,
                       body |-> [error |-> "Multiple products found matching",
                                 matches |-> [i \in 1..Len(found) |->
                                                [id |-> found[i].id,
                                                 name |-> found[i].name]],
                                 suggestion |-> "Please use the exact product name"]])

\* a resolution that takes the first of several products found
UpdateProduct_resolved_first(c) ==
    IF c.ids = <<>>
    THEN Done(c, [statusCode |-> 404,
                  body |-> [error |-> "Product not found",
                            suggestion |-> "Try using the search API to find the exact product name"]])
    ELSE UpdateProduct_current(c)

\* a resolution that updates nothing and says so with 200 when no product
\* is found
UpdateProduct_resolved_noneOk(c) ==
    IF c.ids = <<>>
    THEN Done(c, [statusCode |-> 200, body |-> [success |-> TRUE]])
    ELSE IF Len(c.ids) > 1 THEN UpdateProduct_ambiguous(c)
    ELSE UpdateProduct_current(c)

\* lines 837-863: none, several or one product found
UpdateProduct_resolved(c) ==
    IF c.ids = <<>>
    THEN Done(c, [statusCode |-> 404,
                  body |-> [error |-> "Product not found",
                            suggestion |-> "Try using the search API to find the exact product name"]])
    ELSE IF Len(c.ids) > 1 THEN UpdateProduct_ambiguous(c)
    ELSE UpdateProduct_current(c)

\* a resolution that always goes by the substring search
UpdateProduct_partial_always(c) ==
    LET dom == <<Clause("name", "ilike", c.v.product_name)>>
        c1 == Executed(c, Ev("search", "product.product", dom))
    IN  IF Faulty(c1) THEN Done(c1, UpdateProductFailed)
        ELSE UpdateProduct_resolved(
                [c1 EXCEPT !.ids = ErpSearch(c.P, dom, 0, 0, FALSE)])

\* lines 829-835: the substring search, made when the exact search found
\* nothing
UpdateProduct_partial(c) ==
    LET dom == <<Clause("name", "ilike", c.v.product_name)>>
        c1 == Executed(c, Ev("search", "product.product", dom))
    IN  IF c.ids # <<>> THEN UpdateProduct_resolved(c)
        ELSE IF Faulty(c1) THEN Done(c1, UpdateProductFailed)
        ELSE UpdateProduct_resolved(
                [c1 EXCEPT !.ids = ErpSearch(c.P, dom, 0, 0, FALSE)])

\* lines 821-827: the exact search
UpdateProduct_exact(c) ==
    LET dom == <<Clause("name", "=", c.v.product_name)>>
        c1 == Executed(c, Ev("search", "product.product", dom))
    IN  IF Faulty(c1) THEN Done(c1, UpdateProductFailed)
        ELSE UpdateProduct_partial(
                [c1 EXCEPT !.ids = ErpSearch(c.P, dom, 0, 0, FALSE)])

\* lines 769-819: the body, the required fields, the name and the price
UpdateProduct_parse(c) ==
    LET data == c.r.body.f
        c1 == Logged(c, Ev("json.loads", "", <<>>))
        new_price == ToNumber(data.price)
    IN  IF c.r.body.kind = "none"
        THEN Done(c, ErrorResponse(400, "Request body is required"))
        ELSE IF c.r.body.kind = "badjson"
        THEN Done(c1, ErrorResponse(400, "Invalid JSON in request body"))
        ELSE IF c.r.body.kind = "scalar"
        THEN Raised(c1)            \* TypeError: argument is not iterable
        ELSE IF "product_name" \notin DOMAIN data
        THEN Done(c1, ErrorResponse(400, "product_name is required"))
        ELSE IF "price" \notin DOMAIN data
        THEN Done(c1, ErrorResponse(400, "price is required"))
        ELSE IF data.product_name.t # "str"
        THEN Raised(c1)            \* AttributeError: no attribute 'strip'
        ELSE IF Strip(data.product_name.s) = <<>>
        THEN Done(c1, ErrorResponse(400, "Product name cannot be empty"))
        ELSE IF ~new_price.ok
        THEN Done(c1, ErrorResponse(400, "Price must be a valid number"))
        ELSE IF new_price.n < 0
        THEN Done(c1, ErrorResponse(400, "Price must be a positive number"))
        ELSE UpdateProduct_exact(
                [c1 EXCEPT !.v = [product_name |-> Strip(data.product_name.s),
                                  new_price |-> new_price.n,
                                  update_cost_price |->
                                      Get(data, "update_cost_price", JBool(FALSE))]])

handle_update_product(P, T, r, e) ==
    LET a == authenticate_request(r, e)
    IN  IF ~a.ok THEN Return(a.resp, a.log, P, T)
        ELSE UpdateProduct_parse(Ctx(P, T, r, e, a.log))

(***************************************************************************)
(* handle_list_inventory: GET / and POST /, POST /search.  c.v holds       *)
(* search_term, limit, offset, category_id and the domain, c.ids the ids   *)
(* of the page, c.rec the products read.                                   *)
(***************************************************************************)
\* the parameters of a listing: from the JSON body for POST (the search
\* term under the first of termKeys that is present), from the query string
\* otherwise; limit and offset are the results of int()
ListParams(r, termKeys) ==
    LET data == r.body.f
        q == r.query
    IN  IF r.method = "POST"
        THEN [search_term |->
                  IF Len(termKeys) = 2
                  THEN Get(data, termKeys[1], Get(data, termKeys[2], JStr(<<>>)))
                  ELSE Get(data, termKeys[1], JStr(<<>>)),
              limit |-> ToNumber(Get(data, "limit", JNum(100))),
              offset |-> ToNumber(Get(data, "offset", JNum(0))),
              category_id |-> Get(data, "category_id", JStr(<<>>))]
        ELSE [search_term |-> JStr(Get(q, "search", <<>>)),
              limit |-> IF "limit" \in DOMAIN q THEN ToNumber(JStr(q.limit))
                        ELSE ToNumber(JNum(100)),
              offset |-> IF "offset" \in DOMAIN q THEN ToNumber(JStr(q.offset))
                         ELSE ToNumber(JNum(0)),
              category_id |-> JStr(Get(q, "category_id", <<>>))]

\* lines 304-313: the tags of one product, resolved through tag_details
ProductTags(product, tag_details) ==
    LET known == 1..Len(tag_details)
        detail(id) == CHOOSE i \in known : tag_details[i].id = id
        kept == SelectSeq(product.product_tag_ids,
                          LAMBDA id : \E i \in known : tag_details[i].id = id)
    IN  [k \in 1..Len(kept) |->
            [id |-> tag_details[detail(kept[k])].id,
             name |-> tag_details[detail(kept[k])].name,
             color |-> tag_details[detail(kept[k])].color]]

\* lines 315-325
FormatProduct(product, tag_details) ==
    [id |-> product.id,
     name |-> product.name,
     price |-> product.list_price,
     cost_price |-> product.standard_price,
     currency |-> [id |-> product.currency_id[1], name |-> product.currency_id[2]],
     tags |-> ProductTags(product, tag_details)]

\* has_more computed from the size of the page
HasMore_pageFull(limit, offset, total_count, page) == page = limit

\* line 344
HasMore(limit, offset, total_count, page) == (offset + limit) < total_count

\* lines 300-353
ListInventory_respond(c, total_count, tag_details) ==
    Done(c, [statusCode |-> 200,
             headers |-> JsonHeaders,
             body |-> [success |-> TRUE,
                       found |-> Len(c.rec) > 0,
                       data |-> [i \in 1..Len(c.rec) |->
                                    FormatProduct(c.rec[i], tag_details)],
                       pagination |->
                          [total_count |-> total_count,
                           limit |-> c.v.limit,
                           offset |-> c.v.offset,
                           has_more |-> HasMore(c.v.limit, c.v.offset,
                                                total_count, Len(c.rec))],
                       filters_applied |->
                          [search_term |-> c.v.search_term,
                           category_id |-> c.v.category_id,
                           search_method |-> c.r.method],
                       message |-> "Found product(s)"]])

\* the tag ids referenced by the products read, as often as referenced
RECURSIVE UniqueTagIds_all(_)
UniqueTagIds_all(prods) ==
    IF prods = <<>> THEN <<>>
    ELSE Head(prods).product_tag_ids \o UniqueTagIds_all(Tail(prods))

\* lines 283-289: the tag ids referenced by the products read, once each
UniqueTagIds(prods) ==
    SortedSeq(UNION {Range(prods[i].product_tag_ids) : i \in 1..Len(prods)})

InventoryFailed == ErrorResponse(500, "Odoo API error: {e.faultString}")

\* lines 282-298: the details of the tags of the page
ListInventory_tags(c, total_count) ==
    LET c1 == Executed(c, Ev("read", "product.tag", UniqueTagIds(c.rec)))
    IN  IF UniqueTagIds(c.rec) = <<>> THEN ListInventory_respond(c, total_count, <<>>)
        ELSE IF Faulty(c1) THEN Done(c1, InventoryFailed)
        ELSE ListInventory_respond(
                c1, total_count,
                ErpRead(c.T, UniqueTagIds(c.rec), {"id", "name", "color"}))

\* lines 275-280: the total
ListInventory_count(c) ==
    LET c1 == Executed(c, Ev("search_count", "product.product", c.v.domain))
    IN  IF Faulty(c1) THEN Done(c1, InventoryFailed)
        ELSE ListInventory_tags(c1, ErpSearchCount(c.P, c.v.domain))

\* lines 268-273: the products of the page
ListInventory_read(c) ==
    LET c1 == Executed(c, Ev("read", "product.product", c.ids))
    IN  IF Faulty(c1) THEN Done(c1, InventoryFailed)
        ELSE ListInventory_count(
                [c1 EXCEPT !.rec =
                    ErpRead(c.P, c.ids,
                            {"id", "name", "list_price", "standard_price",
                             "currency_id", "product_tag_ids"})])

\* a search that answers an empty page as a missing resource
ListInventory_search_emptyIsError(c) ==
    LET c1 == Executed(c, Ev("search", "product.product",
                             [domain |-> c.v.domain, limit |-> c.v.limit,
                              offset |-> c.v.offset, order |-> "name"]))
        product_ids == ErpSearch(c.P, c.v.domain, c.v.limit, c.v.offset, TRUE)
    IN  IF Faulty(c1) THEN Done(c1, InventoryFailed)
        ELSE IF product_ids = <<>>
        THEN Done(c1, ErrorResponse(404, "No products found"))
        ELSE ListInventory_read([c1 EXCEPT !.ids = product_ids])

\* lines 242-266: the ids of the page; an empty page is answered at once
ListInventory_search(c) ==
    LET c1 == Executed(c, Ev("search", "product.product",
                             [domain |-> c.v.domain, limit |-> c.v.limit,
                              offset |-> c.v.offset, order |-> "name"]))
        product_ids == ErpSearch(c.P, c.v.domain, c.v.limit, c.v.offset, TRUE)
    IN  IF Faulty(c1) THEN Done(c1, InventoryFailed)
        ELSE IF product_ids = <<>>
        THEN Done(c1, [statusCode |-> 200,
                       headers |-> JsonHeaders,
                       body |-> [success |-> TRUE,
                                 found |-> FALSE,
                                 data |-> <<>>,
                                 total_count |-> 0,
                                 limit |-> c.v.limit,
                                 offset |-> c.v.offset,
                                 message |-> "No products found"]])
        ELSE ListInventory_read([c1 EXCEPT !.ids = product_ids])

\* a domain whose two term clauses are joined by nothing
InventoryDomain_noMarker(search_term, category_id) ==
    <<Clause("type", "=", "product")>>
    \o (IF Truthy(search_term)
        THEN <<Clause("name", "ilike", search_term.s),
               Clause("default_code", "ilike", search_term.s)>>
        ELSE <<>>)
    \o (IF Truthy(category_id)
        THEN <<Clause("categ_id", "=", ToNumber(category_id).n)>>
        ELSE <<>>)

\* lines 222-230: the search domain of the inventory listing
InventoryDomain(search_term, category_id) ==
    <<Clause("type", "=", "product")>>
    \o (IF Truthy(search_term)
        THEN <<OrMarker,
               Clause("name", "ilike", search_term.s),
               Clause("default_code", "ilike", search_term.s)>>
        ELSE <<>>)
    \o (IF Truthy(category_id)
        THEN <<Clause("categ_id", "=", ToNumber(category_id).n)>>
        ELSE <<>>)

\* lines 219-230: int(category_id) raises inside the try
ListInventory_domain(c) ==
    IF Truthy(c.v.category_id) /\ ~ToNumber(c.v.category_id).ok
    THEN Done(c, ErrorResponse(500, "An unexpected server error occurred."))
    ELSE ListInventory_search(
            [c EXCEPT !.v = [search_term |-> c.v.search_term,
                             limit |-> c.v.limit,
                             offset |-> c.v.offset,
                             category_id |-> c.v.category_id,
                             domain |-> InventoryDomain(c.v.search_term,
                                                        c.v.category_id)]])

\* lines 185-216: the parameters; int() of limit and offset is not inside a
\* try that catches its errors
ListInventory_params(c) ==
    LET p == ListParams(c.r, <<"product_name">>)
        c1 == IF c.r.method = "POST" THEN Logged(c, Ev("json.loads", "", <<>>))
              ELSE c
    IN  IF c.r.method = "POST" /\ c.r.body.kind = "none"
        THEN Done(c, ErrorResponse(400, "Request body is required for POST search"))
        ELSE IF c.r.method = "POST" /\ c.r.body.kind = "badjson"
        THEN Done(c1, ErrorResponse(400, "Invalid JSON in request body"))
        ELSE IF c.r.method = "POST" /\ c.r.body.kind = "scalar"
        THEN Raised(c1)            \* AttributeError: no attribute 'get'
        ELSE IF ~p.limit.ok \/ ~p.offset.ok
        THEN Raised(c1)            \* ValueError or TypeError of int()
        ELSE ListInventory_domain(
                [c1 EXCEPT !.v = [search_term |-> p.search_term,
                                  limit |-> p.limit.n,
                                  offset |-> p.offset.n,
                                  category_id |-> p.category_id]])

handle_list_inventory(P, T, r, e) ==
    LET a == authenticate_request(r, e)
    IN  IF ~a.ok THEN Return(a.resp, a.log, P, T)
        ELSE ListInventory_params(Ctx(P, T, r, e, a.log))

(***************************************************************************)
(* handle_list_tags: GET /tags, and POST /tags with tag_name or search.    *)
(***************************************************************************)
ListTagsFailed == ErrorResponse(500, "Could not retrieve tags: {e}")

\* lines 444-482: the total and the response
ListTags_count(c) ==
    LET c1 == Executed(c, Ev("search_count", "product.tag", c.v.domain))
        total_count == ErpSearchCount(c.T, c.v.domain)
    IN  IF Faulty(c1) THEN Done(c1, ListTagsFailed)
        ELSE Done(c1, [statusCode |-> 200,
                       headers |-> JsonHeaders,
                       body |-> [success |-> TRUE,
                                 data |-> [i \in 1..Len(c.rec) |->
                                              [id |-> c.rec[i].id,
                                               name |-> c.rec[i].name,
                                               color |-> c.rec[i].color]],
                                 pagination |->
                                    [total_count |-> total_count,
                                     limit |-> c.v.limit,
                                     offset |-> c.v.offset,
                                     has_more |->
                                        (c.v.offset + c.v.limit) < total_count],
                                 filters_applied |->
                                    [search_term |-> c.v.search_term,
                                     search_method |-> c.r.method]]])

\* lines 437-442: the tags of the page
ListTags_read(c) ==
    LET c1 == Executed(c, Ev("read", "product.tag", c.ids))
    IN  IF Faulty(c1) THEN Done(c1, ListTagsFailed)
        ELSE ListTags_count(
                [c1 EXCEPT !.rec = ErpRead(c.T, c.ids, {"id", "name", "color"})])

\* lines 413-435: the ids of the page; an empty page is answered at once
ListTags_search(c) ==
    LET c1 == Executed(c, Ev("search", "product.tag",
                             [domain |-> c.v.domain, limit |-> c.v.limit,
                              offset |-> c.v.offset, order |-> "name"]))
        tag_ids == ErpSearch(c.T, c.v.domain, c.v.limit, c.v.offset, TRUE)
    IN  IF Faulty(c1) THEN Done(c1, ListTagsFailed)
        ELSE IF tag_ids = <<>>
        THEN Done(c1, [statusCode |-> 200,
                       headers |-> JsonHeaders,
                       body |-> [success |-> TRUE,
                                 data |-> <<>>,
                                 total_count |-> 0,
                                 limit |-> c.v.limit,
                                 offset |-> c.v.offset]])
        ELSE ListTags_read([c1 EXCEPT !.ids = tag_ids])

\* lines 409-411
TagDomain(search_term) ==
    IF Truthy(search_term) THEN <<Clause("name", "ilike", search_term.s)>>
    ELSE <<>>

\* lines 376-411: the parameters and the domain
ListTags_params(c) ==
    LET p == ListParams(c.r, <<"tag_name", "search">>)
        c1 == IF c.r.method = "POST" THEN Logged(c, Ev("json.loads", "", <<>>))
              ELSE c
    IN  IF c.r.method = "POST" /\ c.r.body.kind = "none"
        THEN Done(c, ErrorResponse(400, "Request body is required for POST search"))
        ELSE IF c.r.method = "POST" /\ c.r.body.kind = "badjson"
        THEN Done(c1, ErrorResponse(400, "Invalid JSON in request body"))
        ELSE IF c.r.method = "POST" /\ c.r.body.kind = "scalar"
        THEN Raised(c1)            \* AttributeError: no attribute 'get'
        ELSE IF ~p.limit.ok \/ ~p.offset.ok
        THEN Raised(c1)            \* ValueError or TypeError of int()
        ELSE ListTags_search(
                [c1 EXCEPT !.v = [search_term |-> p.search_term,
                                  limit |-> p.limit.n,
                                  offset |-> p.offset.n,
                                  domain |-> TagDomain(p.search_term)]])

handle_list_tags(P, T, r, e) ==
    LET a == authenticate_request(r, e)
    IN  IF ~a.ok THEN Return(a.resp, a.log, P, T)
        ELSE ListTags_params(Ctx(P, T, r, e, a.log))

(***************************************************************************)
(* lambda_handler: the dispatcher.                                         *)
(***************************************************************************)
CorsHeaders == {"Access-Control-Allow-Origin", "Access-Control-Allow-Methods",
                "Access-Control-Allow-Headers"}

\* the handler the routing selects, or the response it gives itself
ToHandler(name, lg) == [handler |-> name, log |-> lg, resp |-> <<>>]
Answer(status, msg, lg) ==
    [handler |-> "", log |-> lg, resp |-> ErrorResponse(status, msg)]
\* an exception raised by the routing itself
Fails(lg) == [handler |-> "raise", log |-> lg, resp |-> <<>>]

\* lines 58-79 and 87-108: the choice made from the keys of a POST body on
\* /tags and /products
ClassifyBody(r, first, second) ==
    LET data == r.body.f
        lgJ == <<Ev("json.loads", "", <<>>)>>
    IN  IF r.body.kind = "none"
        THEN Answer(400, "Request body is required", <<>>)
        ELSE IF r.body.kind = "badjson"
        THEN Answer(400, "Invalid JSON in request body", lgJ)
        ELSE IF r.body.kind = "scalar"
        THEN Fails(lgJ)            \* TypeError: argument is not iterable
        ELSE IF r.rawPath[1] = "tags"
        THEN IF "tag_name" \in DOMAIN data \/ "search" \in DOMAIN data
             THEN ToHandler(first, lgJ)
             ELSE IF "name" \in DOMAIN data
             THEN ToHandler(second, lgJ)
             ELSE Answer(400, "Invalid request body (tags)", lgJ)
        ELSE IF "product_name" \in DOMAIN data /\ "price" \in DOMAIN data
             THEN ToHandler(first, lgJ)
             ELSE IF "name" \in DOMAIN data
                     /\ ("cost" \in DOMAIN data \/ "price" \in DOMAIN data)
             THEN ToHandler(second, lgJ)
             ELSE Answer(400, "Invalid request body (products)", lgJ)

\* lines 52-111: the routing on the path, the method and the body
RouteTarget(r) ==
    LET path_parts == r.rawPath
        m == r.method
    IN  IF path_parts = <<>>
        THEN IF m \in {"GET", "POST"}
             THEN ToHandler("handle_list_inventory", <<>>)
             ELSE Answer(405, "Method Not Allowed for inventory listing", <<>>)
        ELSE IF path_parts[1] = "tags"
        THEN IF m = "GET" THEN ToHandler("handle_list_tags", <<>>)
             ELSE IF m = "POST"
             THEN ClassifyBody(r, "handle_list_tags", "handle_create_tag")
             ELSE Answer(405, "Method Not Allowed for tags", <<>>)
        ELSE IF path_parts[1] = "search"
        THEN IF m = "POST" THEN ToHandler("handle_list_inventory", <<>>)
             ELSE Answer(405, "Search endpoint only supports POST method", <<>>)
        ELSE IF path_parts[1] = "products"
        THEN IF m = "POST"
             THEN ClassifyBody(r, "handle_update_product", "handle_create_product")
             ELSE IF m = "PUT" THEN ToHandler("handle_update_product", <<>>)
             ELSE Answer(405, "Method Not Allowed for products", <<>>)
        ELSE Answer(404, "Endpoint not found", <<>>)

\* the call of the selected handler: the handler's steps follow the
\* dispatcher's in the log
Call(name, h, lg) ==
    [h EXCEPT !.log = Append(lg, Ev("handler", "", name)) \o h.log]

\* lines 51-111: the routing and the handler's run
Route(P, T, r, e) ==
    LET t == RouteTarget(r)
    IN  CASE t.handler = "handle_list_inventory" ->
                Call(t.handler, handle_list_inventory(P, T, r, e), t.log)
          [] t.handler = "handle_list_tags" ->
                Call(t.handler, handle_list_tags(P, T, r, e), t.log)
          [] t.handler = "handle_create_tag" ->
                Call(t.handler, handle_create_tag(P, T, r, e), t.log)
          [] t.handler = "handle_create_product" ->
                Call(t.handler, handle_create_product(P, T, r, e), t.log)
          [] t.handler = "handle_update_product" ->
                Call(t.handler, handle_update_product(P, T, r, e), t.log)
          [] t.handler = "raise" -> Raise(t.log, P, T)
          [] OTHER -> Return(t.resp, t.log, P, T)

\* a dispatcher without its except clause
Caught_reraise(routed) == routed

\* lines 113-118: an exception of the routing or of a handler is answered 500
Caught(routed) ==
    IF routed.raised
    THEN Return(ErrorResponse(500, "Internal server error"),
                routed.log, routed.products, routed.tags)
    ELSE routed

\* a dispatcher that routes every method
Dispatch_anyMethod(P, T, r, e) == Caught(Route(P, T, r, e))

\* lines 40-118: a request that is not a preflight
Dispatch(P, T, r, e) ==
    IF r.method \notin {"GET", "POST", "PUT", "DELETE"}
    THEN Return(ErrorResponse(405, "Method Not Allowed"), <<>>, P, T)
    ELSE Caught(Route(P, T, r, e))

\* a dispatcher that answers a preflight only after the authenticator
lambda_handler_authFirst(P, T, r, e) ==
    LET a == authenticate_request(r, e)
    IN  IF r.method = "OPTIONS"
        THEN IF a.ok
             THEN Return([statusCode |-> 204, headers |-> CorsHeaders], a.log, P, T)
             ELSE Return(a.resp, a.log, P, T)
        ELSE Dispatch(P, T, r, e)

\* lines 19-118
lambda_handler(P, T, r, e) ==
    IF r.method = "OPTIONS"
    THEN Return([statusCode |-> 204, headers |-> CorsHeaders], <<>>, P, T)
    ELSE Dispatch(P, T, r, e)

(***************************************************************************)
(* One request handled from start to finish.                               *)
(***************************************************************************)
ExecOps == {"search", "search_count", "read", "create", "write"}

\* the execute calls / the mutating calls of a log
ExecCalls(lg) == SelectSeq(lg, LAMBDA ev : ev.op \in ExecOps)
MutatingCalls(lg) == SelectSeq(lg, LAMBDA ev : ev.op \in {"create", "write"})
HasOp(lg, op) == \E i \in 1..Len(lg) : lg[i].op = op

\* the handler the dispatcher called, "" when it called none
HandlerOf(lg) ==
    IF HasOp(lg, "handler")
    THEN (CHOOSE ev \in Range(lg) : ev.op = "handler").arg
    ELSE ""

\* no request is being handled: lambda_handler has not been invoked yet, or
\* its last invocation has returned
NoRequest ==
    [method |-> "", rawPath |-> <<>>, headers |-> <<>>, query |-> <<>>,
     body |-> [kind |-> "none", f |-> <<>>]]
NoResponse == [statusCode |-> 0]
EnvOk == [uid |-> "ok", fault |-> 0]

Idle == req = NoRequest

\* The request r is handled while the ERP behaves as e.  The behaviours e
\* kept are those the request meets: the session id matters when
\* authenticate is called, the raising call when that call is issued.
Handle(r, e) ==
    \E h \in {lambda_handler(products, tags, r, e)} :
        /\ Idle
        /\ e.fault <= Len(ExecCalls(h.log))
        /\ e.uid # "ok" => HasOp(h.log, "authenticate")
        /\ Len(h.products) > Len(products) => Len(h.products) <= MaxProducts
        /\ Len(h.tags) > Len(tags) => Len(h.tags) <= MaxTags
        /\ products' = h.products
        /\ tags' = h.tags
        /\ req' = r
        /\ env' = e
        /\ resp' = h.resp
        /\ log' = h.log
        /\ UNCHANGED <<CLIENT_ID, CLIENT_SECRET, inflight>>

\* The invocation ends: the response has gone back to the host, which
\* invokes lambda_handler again for the next event.
Deliver ==
    /\ ~Idle
    /\ req' = NoRequest
    /\ env' = EnvOk
    /\ resp' = NoResponse
    /\ log' = <<>>
    /\ UNCHANGED <<products, tags, CLIENT_ID, CLIENT_SECRET, inflight>>

(***************************************************************************)
(* Inputs.                                                                 *)
(***************************************************************************)
Request(m, path, hs, q, b) ==
    [method |-> m, rawPath |-> path, headers |-> hs, query |-> q, body |-> b]

NoQuery == [k \in {} |-> <<>>]
NoBody == [kind |-> "none", f |-> NoQuery]
BadJson == [kind |-> "badjson", f |-> NoQuery]
\* a body that is valid JSON but no container: a number, true, false, null
Scalar == [kind |-> "scalar", f |-> NoQuery]
Obj(f) == [kind |-> "obj", f |-> f]
EmptyObj == Obj([k \in {} |-> JNull])

Env(uid, fault) == [uid |-> uid, fault |-> fault]

\* shared-secret configurations: none, both, the id without the secret
Configs == {<<"", "">>, <<"id0", "sec0">>, <<"id0", "">>}

GoodHeaders == << <<"x-client-id", "id0">>, <<"x-client-secret", "sec0">> >>
GoodHeadersMixedCase ==
    << <<"Content-Type", "application/json">>, <<"X-Client-Id", "id0">>,
       <<"X-CLIENT-SECRET", "sec0">> >>
WrongSecret == << <<"x-client-id", "id0">>, <<"x-client-secret", "wrong">> >>
WrongCaseValue == << <<"x-client-id", "ID0">>, <<"x-client-secret", "sec0">> >>
OnlyId == << <<"x-client-id", "id0">> >>
Overridden ==
    << <<"x-client-id", "id0">>, <<"X-Client-Id", "wrong">>,
       <<"x-client-secret", "sec0">> >>
HeaderSets == {<<>>, GoodHeaders, GoodHeadersMixedCase, WrongSecret,
               WrongCaseValue, OnlyId, Overridden}

\* records of the ERP tables
Product(name, list_price, standard_price, type, tag_ids, code, categ) ==
    [name |-> name, list_price |-> list_price, standard_price |-> standard_price,
     type |-> type, sale_ok |-> TRUE, purchase_ok |-> (type # "product"),
     product_tag_ids |-> tag_ids, default_code |-> code, categ_id |-> categ,
     currency_id |-> <<1, "USD">>]
Tag(name, color) == [name |-> name, color |-> color]

Str_a == <<"a">>
Str_A == <<"A">>
Str_ab == <<"a", "b">>
Str_b == <<"b">>
Str_a_padded == <<" ", "a", " ">>
Str_blank == <<" ">>

\* two products that share a name
CatalogDup == <<Product(Str_a, 1, 0, "product", {}, <<>>, 1),
                Product(Str_a, 2, 1, "product", {}, <<>>, 1)>>
\* a tagged stockable product with an internal code, and a service
CatalogMixed == <<Product(Str_ab, 1, 1, "product", {1}, <<"x">>, 2),
                  Product(Str_A, 2, 0, "service", {}, <<>>, 1)>>

(***************************************************************************)
(* Spec: requests of every method on every path, with every header set,    *)
(* under every shared-secret configuration.                                *)
(***************************************************************************)
Methods == {"GET", "POST", "PUT", "DELETE", "OPTIONS", "PATCH"}
Paths == {<<>>, <<"tags">>, <<"search">>, <<"products">>, <<"other">>}

RoutingBodies ==
    {NoBody, BadJson, Scalar, EmptyObj,
     Obj([name |-> JStr(Str_a)]),
     Obj([tag_name |-> JStr(Str_a)]),
     Obj([name |-> JStr(Str_a), price |-> JNum(1)]),
     Obj([product_name |-> JStr(Str_a), price |-> JNum(2)])}

RoutingEnvs == {Env(u, k) : u \in {"ok", "false", "raise"}, k \in {0, 1}}

Init ==
    /\ \E c \in Configs : CLIENT_ID = c[1] /\ CLIENT_SECRET = c[2]
    /\ \/ products = <<>> /\ tags = <<>>
       \/ products = CatalogDup /\ tags = <<>>
       \/ products = CatalogMixed /\ tags = <<Tag(Str_b, 1)>>
    /\ req = NoRequest
    /\ env = EnvOk
    /\ resp = NoResponse
    /\ log = <<>>
    /\ inflight = <<>>

\* a request on path with a method other than OPTIONS
RequestOn(path) ==
    /\ Idle
    /\ \E m \in Methods \ {"OPTIONS"}, hs \in HeaderSets, b \in RoutingBodies,
       e \in RoutingEnvs :
        Handle(Request(m, path, hs, NoQuery, b), e)

Preflight ==
    /\ Idle
    /\ \E path \in Paths, hs \in HeaderSets, b \in RoutingBodies :
        Handle(Request("OPTIONS", path, hs, NoQuery, b), EnvOk)

RootRequest == RequestOn(<<>>)
TagsRequest == RequestOn(<<"tags">>)
SearchRequest == RequestOn(<<"search">>)
ProductsRequest == RequestOn(<<"products">>)
UnknownPathRequest == RequestOn(<<"other">>)

Next ==
    \/ Preflight
    \/ RootRequest
    \/ TagsRequest
    \/ SearchRequest
    \/ ProductsRequest
    \/ UnknownPathRequest
    \/ Deliver

Spec == Init /\ [][Next]_vars

(***************************************************************************)
(* Properties of the authenticator and the dispatcher (checked under Spec) *)
(***************************************************************************)
SecretConfigured == CLIENT_ID # "" /\ CLIENT_SECRET # ""

\* the spellings of a header name that occur in requests
Spellings(name) ==
    CASE name = "x-client-id" -> {"x-client-id", "X-Client-Id"}
      [] name = "x-client-secret" -> {"x-client-secret", "X-CLIENT-SECRET"}
      [] OTHER -> {name}

\* the request carries a header named name (in any case) with value v
HasHeader(r, name, v) ==
    \E i \in 1..Len(r.headers) :
        r.headers[i][1] \in Spellings(name) /\ r.headers[i][2] = v

\* the request lacks the configured client id or the configured secret
LacksSecret(r) ==
    \/ ~HasHeader(r, "x-client-id", CLIENT_ID)
    \/ ~HasHeader(r, "x-client-secret", CLIENT_SECRET)

\* no two headers of the request bear the same name up to case
DistinctHeaderNames(r) ==
    \A name \in {"x-client-id", "x-client-secret"} :
        Cardinality({i \in 1..Len(r.headers) :
                        r.headers[i][1] \in Spellings(name)}) <= 1

\* position of the first step of kind op in the log, 0 when there is none
FirstIndex(lg, op) ==
    IF HasOp(lg, op) THEN CHOOSE i \in 1..Len(lg) :
                            lg[i].op = op /\ \A j \in 1..(i - 1) : lg[j].op # op
    ELSE 0

ErpCalls(lg) == SelectSeq(lg, LAMBDA ev : ev.op \in ExecOps \cup {"authenticate"})

\* C1 as stated: with a shared secret configured, every request that lacks
\* the correct x-client-id / x-client-secret headers is answered 401,
\* whatever its path, method and body.
C1_AnyRequest401 ==
    (~Idle /\ SecretConfigured /\ LacksSecret(req)) => resp.statusCode = 401

\* C1 amended: with a shared secret configured, every request that the
\* dispatcher hands to a handler and that lacks the correct headers is
\* answered 401; a request the dispatcher answers itself gets 204 (OPTIONS),
\* 405, 404, 400 or (a POST body that is JSON but no object) 500 and its
\* headers are not looked at.
C1_RoutedRequest401 ==
    (~Idle /\ SecretConfigured /\ LacksSecret(req)) =>
        /\ HandlerOf(log) # "" => resp.statusCode = 401
        /\ HandlerOf(log) = "" =>
              /\ resp.statusCode \in {204, 400, 404, 405, 500}
              /\ ~HasOp(log, "check_secret")

C1_Witness ==
    /\ SecretConfigured
    /\ req.method = "POST" /\ req.rawPath = <<"products">>
    /\ req.headers = WrongSecret
    /\ HandlerOf(log) = "handle_create_product"
    /\ resp.statusCode = 401

\* C2: on every request that reaches a handler while a shared secret is
\* configured, the header check is the handler's first step and precedes
\* every ERP call; header names match in any case, values must be equal
\* exactly; when the check fails the request is answered 401 and neither the
\* ERP authenticate call nor any execute call is issued.
C2_SecretCheckedBeforeErp ==
    (~Idle /\ SecretConfigured /\ HandlerOf(log) # "") =>
        /\ HasOp(log, "check_secret")
        /\ FirstIndex(log, "check_secret") = FirstIndex(log, "handler") + 1
        /\ \A i \in 1..Len(log) :
              log[i].op \in ExecOps \cup {"authenticate"}
                  => FirstIndex(log, "check_secret") < i
        /\ LacksSecret(req) => ErpCalls(log) = <<>>
        /\ DistinctHeaderNames(req) =>
              (LacksSecret(req) <=> resp.statusCode = 401)

C2_Witness ==
    /\ SecretConfigured
    /\ req.headers = WrongCaseValue
    /\ HandlerOf(log) = "handle_list_inventory"
    /\ HasOp(log, "check_secret")
    /\ ErpCalls(log) = <<>>
    /\ resp.statusCode = 401

\* C3: an OPTIONS request on any path is answered 204 with the three
\* Access-Control-Allow-* headers, without a shared-secret check, without
\* parsing the body and without any ERP call.
C3_PreflightUnconditional ==
    (~Idle /\ req.method = "OPTIONS") =>
        /\ resp.statusCode = 204
        /\ "headers" \in DOMAIN resp
        /\ {"Access-Control-Allow-Origin", "Access-Control-Allow-Methods",
            "Access-Control-Allow-Headers"} \subseteq resp.headers
        /\ ~HasOp(log, "check_secret")
        /\ ~HasOp(log, "json.loads")
        /\ ~HasOp(log, "handler")
        /\ ErpCalls(log) = <<>>

C3_Witness ==
    /\ SecretConfigured
    /\ req.method = "OPTIONS" /\ req.rawPath = <<"products">>
    /\ req.headers = <<>>
    /\ req.body.kind = "obj"
    /\ resp.statusCode = 204

(***************************************************************************)
(* SpecTags: create-tag requests one after the other, with listings of     *)
(* the tags and create-product requests of padded names in between.        *)
(***************************************************************************)
TagNames == {JStr(Str_a), JStr(Str_A), JStr(Str_a_padded), JStr(Str_b),
             JStr(Str_blank), JNum(1)}
TagColors == {0, 1}

CreateTagEvent(hs, f) == Request("POST", <<"tags">>, hs, NoQuery, Obj(f))

InitTags ==
    /\ \E c \in {<<"", "">>, <<"id0", "sec0">>} :
            CLIENT_ID = c[1] /\ CLIENT_SECRET = c[2]
    /\ products = <<>>
    /\ tags = <<>>
    /\ req = NoRequest
    /\ env = EnvOk
    /\ resp = NoResponse
    /\ log = <<>>
    /\ inflight = <<>>

\* POST /tags {name, color} with the right headers, the ERP answering
CreateTag ==
    /\ Idle
    /\ \E n \in TagNames, col \in TagColors :
        Handle(CreateTagEvent(GoodHeaders, [name |-> n, color |-> JNum(col)]),
               EnvOk)

\* POST /tags {name}
CreateTagNoColor ==
    /\ Idle
    /\ \E n \in TagNames : Handle(CreateTagEvent(GoodHeaders, [name |-> n]), EnvOk)

\* POST /tags {name} without the right headers, or refused by the ERP
CreateTagUnauthorised ==
    /\ Idle
    /\ \E n \in TagNames, hs \in {<<>>, WrongSecret, GoodHeadersMixedCase},
          u \in {"false", "raise"} :
        Handle(CreateTagEvent(hs, [name |-> n]), Env(u, 0))

\* POST /tags {name} while an execute call raises
CreateTagFaulted ==
    /\ Idle
    /\ \E n \in TagNames, k \in 1..2 :
        Handle(CreateTagEvent(GoodHeaders, [name |-> n]), Env("ok", k))

\* GET /tags
ListTags ==
    /\ Idle
    /\ \E q \in {NoQuery, [search |-> Str_a], [limit |-> <<"1">>]} :
        Handle(Request("GET", <<"tags">>, GoodHeaders, q, NoBody), EnvOk)

\* POST /products {name, price} with a name that may carry spaces around it
CreateProductPadded ==
    /\ Idle
    /\ \E n \in {JStr(Str_a), JStr(Str_a_padded), JStr(Str_blank)} :
        Handle(Request("POST", <<"products">>, GoodHeaders, NoQuery,
                       Obj([name |-> n, price |-> JNum(1)])),
               EnvOk)

NextTags ==
    \/ CreateTag
    \/ CreateTagNoColor
    \/ CreateTagUnauthorised
    \/ CreateTagFaulted
    \/ ListTags
    \/ CreateProductPadded
    \/ Deliver

SpecTags == InitTags /\ [][NextTags]_vars

(***************************************************************************)
(* Properties of handle_create_tag (checked under SpecTags)                *)
(***************************************************************************)
\* the request r passes the authenticator and the ERP answers every call
Served(r, e) ==
    /\ SecretConfigured => ~LacksSecret(r)
    /\ e.uid = "ok"
    /\ e.fault = 0

TagsNamed(T, name) == {i \in DOMAIN T : T[i].name = name}

\* C4: create-tag requests handled one after the other: a request whose
\* (trimmed) name is the name of an existing tag creates nothing and, when
\* it passes authentication and the ERP answers, is answered 409; hence no
\* two tags ever share a name (after "Premium" twice there is one "Premium").
C4_DuplicateTagRejected ==
    [][ /\ (/\ Idle
            /\ HandlerOf(log') = "handle_create_tag"
            /\ req'.body.f.name.t = "str"
            /\ TagsNamed(tags, Strip(req'.body.f.name.s)) # {})
           => /\ tags' = tags
              /\ ~HasOp(log', "create")
              /\ Served(req', env') => resp'.statusCode = 409
        /\ \A name \in {tags'[i].name : i \in DOMAIN tags'} :
              Cardinality(TagsNamed(tags', name)) = 1 ]_vars

C4_Witness ==
    /\ HandlerOf(log) = "handle_create_tag"
    /\ req.body.f.name = JStr(Str_a)
    /\ resp.statusCode = 409
    /\ Cardinality(TagsNamed(tags, Str_a)) = 1
    /\ Len(tags) = 2
    /\ ~HasOp(log, "create")

(***************************************************************************)
(* SpecCreate: create-product requests one after the other, over one       *)
(* product and two tags.                                                   *)
(***************************************************************************)
ProductNames == {JStr(Str_a), JStr(Str_A), JStr(Str_a_padded), JStr(Str_ab),
                 JStr(Str_blank), JNum(1)}
Prices == {JNum(1), JStr(<<"2">>), JNum(0), JNum(-1), JStr(<<"x">>), JNull}
CostPrices == {JNum(0), JNum(2), JStr(<<" ", "3">>), JNum(-1), JStr(<<>>), JNull}
TagIdLists == {JList(<<>>), JList(<<1>>), JList(<<2, 1>>), JList(<<1, 1>>),
               JList(<<3>>), JStr(Str_a), JNum(0), JNull}

CreateProductEvent(hs, f) == Request("POST", <<"products">>, hs, NoQuery, Obj(f))

InitCreate ==
    /\ \E c \in {<<"", "">>, <<"id0", "sec0">>} :
            CLIENT_ID = c[1] /\ CLIENT_SECRET = c[2]
    /\ products = <<Product(Str_A, 2, 1, "product", {1}, <<>>, 1)>>
    /\ tags = <<Tag(Str_b, 1), Tag(Str_a, 2)>>
    /\ req = NoRequest
    /\ env = EnvOk
    /\ resp = NoResponse
    /\ log = <<>>
    /\ inflight = <<>>

\* POST /products {name, price}
CreateProduct ==
    /\ Idle
    /\ \E n \in ProductNames, p \in Prices :
        Handle(CreateProductEvent(GoodHeaders, [name |-> n, price |-> p]), EnvOk)

\* POST /products {name, cost}, and {name, cost, price}
CreateProductLegacy ==
    /\ Idle
    /\ \E n \in {JStr(Str_a), JStr(Str_A)} :
        \/ Handle(CreateProductEvent(GoodHeaders, [name |-> n, cost |-> JNum(2)]),
                  EnvOk)
        \/ \E p \in {JNum(1), JNull, JStr(<<>>)} :
            Handle(CreateProductEvent(
                     GoodHeaders, [name |-> n, cost |-> JNum(2), price |-> p]),
                   EnvOk)

\* POST /products {name, price, cost_price}
CreateProductWithCostPrice ==
    /\ Idle
    /\ \E n \in {JStr(Str_ab), JStr(Str_A)}, cp \in CostPrices :
        Handle(CreateProductEvent(
                 GoodHeaders, [name |-> n, price |-> JNum(1), cost_price |-> cp]),
               EnvOk)

\* POST /products {name, price, tag_ids}
CreateProductWithTags ==
    /\ Idle
    /\ \E n \in {JStr(Str_a), JStr(Str_A)}, l \in TagIdLists :
        Handle(CreateProductEvent(
                 GoodHeaders, [name |-> n, price |-> JNum(1), tag_ids |-> l]),
               EnvOk)

\* POST /products with fields that the handler does not read
CreateProductExtraFields ==
    /\ Idle
    /\ \E n \in {JStr(Str_ab), JStr(Str_A)} :
        Handle(CreateProductEvent(
                 GoodHeaders,
                 [name |-> n, price |-> JNum(1), type |-> JStr("service"),
                  sale_ok |-> JBool(FALSE), purchase_ok |-> JBool(TRUE),
                  standard_price |-> JNum(2)]),
               EnvOk)

\* POST /products without the right headers, or refused by the ERP
CreateProductUnauthorised ==
    /\ Idle
    /\ \E n \in {JStr(Str_a), JStr(Str_A)}, hs \in {<<>>, WrongSecret, GoodHeaders},
          u \in {"false", "raise"} :
        Handle(CreateProductEvent(hs, [name |-> n, price |-> JNum(1)]), Env(u, 0))

\* POST /products while an execute call raises
CreateProductFaulted ==
    /\ Idle
    /\ \E n \in {JStr(Str_a), JStr(Str_A)}, k \in 1..5 :
        Handle(CreateProductEvent(
                 GoodHeaders,
                 [name |-> n, price |-> JNum(1), tag_ids |-> JList(<<2>>)]),
               Env("ok", k))

NextCreate ==
    \/ CreateProduct
    \/ CreateProductLegacy
    \/ CreateProductWithCostPrice
    \/ CreateProductWithTags
    \/ CreateProductExtraFields
    \/ CreateProductUnauthorised
    \/ CreateProductFaulted
    \/ Deliver

SpecCreate == InitCreate /\ [][NextCreate]_vars

(***************************************************************************)
(* Properties of handle_create_product (checked under SpecCreate)          *)
(***************************************************************************)
ProductsNamed(P, name) == {i \in DOMAIN P : P[i].name = name}

\* v is a number, or a string that reads as one, and not negative
IsPrice(v) == v.t \in {"num", "str", "bool"} /\ ToNumber(v).ok /\ ToNumber(v).n >= 0

\* the tag ids supplied in a create-product body
SuppliedTagIds(data) ==
    IF "tag_ids" \in DOMAIN data /\ data.tag_ids.t = "list" THEN data.tag_ids.l
    ELSE <<>>

\* apart from its name, the create-product body data is acceptable: a
\* price, a cost price if any, and tag ids that are distinct ids of tags
AcceptableProduct(data, T) ==
    /\ IsPrice(IF "price" \in DOMAIN data THEN data.price ELSE data.cost)
    /\ "cost_price" \in DOMAIN data => IsPrice(data.cost_price)
    /\ "tag_ids" \in DOMAIN data =>
          \/ ~Truthy(data.tag_ids)
          \/ /\ data.tag_ids.t = "list"
             /\ Range(data.tag_ids.l) \subseteq DOMAIN T
             /\ Cardinality(Range(data.tag_ids.l)) = Len(data.tag_ids.l)

\* C5: a create-product request whose (trimmed) name is exactly the name of
\* an existing product issues no create and no write and leaves every
\* product as it was; when the request is otherwise acceptable, passes
\* authentication and the ERP answers, it is answered 409.
C5_DuplicateProductRejected ==
    [][ (/\ Idle
         /\ HandlerOf(log') = "handle_create_product"
         /\ req'.body.f.name.t = "str"
         /\ ProductsNamed(products, Strip(req'.body.f.name.s)) # {})
        => /\ products' = products
           /\ tags' = tags
           /\ MutatingCalls(log') = <<>>
           /\ (Served(req', env') /\ AcceptableProduct(req'.body.f, tags))
                 => resp'.statusCode = 409 ]_vars

C5_Witness ==
    /\ HandlerOf(log) = "handle_create_product"
    /\ req.body.f.name = JStr(Str_A)
    /\ ProductsNamed(products, Str_A) = {1}
    /\ products[1].list_price = 2
    /\ req.body.f.price = JNum(1)
    /\ resp.statusCode = 409

\* C8: a create-product request with a price p that is answered 201 has
\* created exactly one product, with the trimmed name, sale price p, type
\* stockable, sellable and not purchasable whatever else the body carries;
\* the cost price is among the created values only when cost_price was
\* supplied; the response's sale_price, read back from the ERP, is p.
C8_CreatedProductFixedFields ==
    [][ (/\ Idle
         /\ HandlerOf(log') = "handle_create_product"
         /\ resp'.statusCode = 201
         /\ "price" \in DOMAIN req'.body.f)
        => LET data == req'.body.f
               new == products'[Len(products')]
               creates == SelectSeq(log', LAMBDA ev : ev.op = "create")
           IN  /\ Len(products') = Len(products) + 1
               /\ SubSeq(products', 1, Len(products)) = products
               /\ Len(creates) = 1
               /\ ~HasOp(log', "write")
               /\ new.name = Strip(data.name.s)
               /\ new.list_price = ToNumber(data.price).n
               /\ new.type = "product"
               /\ new.sale_ok = TRUE
               /\ new.purchase_ok = FALSE
               /\ "standard_price" \in DOMAIN creates[1].arg
                     <=> "cost_price" \in DOMAIN data
               /\ "cost_price" \in DOMAIN data
                     => new.standard_price = ToNumber(data.cost_price).n
               /\ resp'.body.data.id = Len(products')
               /\ resp'.body.data.sale_price = ToNumber(data.price).n ]_vars

C8_Witness ==
    /\ HandlerOf(log) = "handle_create_product"
    /\ resp.statusCode = 201
    /\ req.body.f.name = JStr(Str_ab)
    /\ "type" \in DOMAIN req.body.f
    /\ req.body.f.type = JStr("service")
    /\ products[Len(products)].type = "product"
    /\ products[Len(products)].purchase_ok = FALSE
    /\ resp.body.data.sale_price = 1

\* C9: in a 201 response to create-product, tags holds one entry per tag id
\* supplied in tag_ids and no other, each the {id, name, color} of that
\* tag; it is empty when no tag ids were supplied.
C9_CreatedTagsRoundTrip ==
    (/\ ~Idle
     /\ HandlerOf(log) = "handle_create_product"
     /\ resp.statusCode = 201)
    => LET supplied == SuppliedTagIds(req.body.f)
           returned == resp.body.data.tags
       IN  /\ Len(returned) = Len(supplied)
           /\ {returned[i].id : i \in DOMAIN returned} = Range(supplied)
           /\ \A i \in DOMAIN returned :
                 returned[i] = [id |-> returned[i].id,
                                name |-> tags[returned[i].id].name,
                                color |-> tags[returned[i].id].color]
           /\ products[Len(products)].product_tag_ids = Range(supplied)

C9_Witness ==
    /\ HandlerOf(log) = "handle_create_product"
    /\ resp.statusCode = 201
    /\ "tag_ids" \in DOMAIN req.body.f
    /\ req.body.f.tag_ids = JList(<<2, 1>>)
    /\ Len(resp.body.data.tags) = 2
    /\ resp.body.data.tags[1] = [id |-> 1, name |-> Str_b, color |-> 1]
    /\ resp.body.data.tags[2] = [id |-> 2, name |-> Str_a, color |-> 2]

(***************************************************************************)
(* SpecUpdate: update-product requests one after the other, over catalogs  *)
(* in which names are shared, contained in one another, or differ in case. *)
(***************************************************************************)
Str_x == <<"x">>

UpdateNames == {JStr(Str_a), JStr(Str_A), JStr(Str_ab), JStr(Str_b), JStr(Str_x),
                JStr(Str_a_padded), JStr(Str_blank), JNum(1)}
NewPrices == {JNum(5), JStr(<<"6">>)}
BadPrices == {JNum(-1), JStr(Str_x), JNull}

\* two products named a and one named ab
CatalogShared == CatalogDup \o <<Product(Str_ab, 3, 1, "product", {1}, <<>>, 1)>>

UpdateEvent(m, hs, b) == Request(m, <<"products">>, hs, NoQuery, b)

InitUpdate ==
    /\ \E c \in {<<"", "">>, <<"id0", "sec0">>} :
            CLIENT_ID = c[1] /\ CLIENT_SECRET = c[2]
    /\ products \in {<<>>, CatalogShared, CatalogMixed}
    /\ tags = <<Tag(Str_b, 1)>>
    /\ req = NoRequest
    /\ env = EnvOk
    /\ resp = NoResponse
    /\ log = <<>>
    /\ inflight = <<>>

\* PUT /products {product_name, price}
UpdateProduct ==
    /\ Idle
    /\ \E n \in UpdateNames, p \in NewPrices :
        Handle(UpdateEvent("PUT", GoodHeaders, Obj([product_name |-> n, price |-> p])),
               EnvOk)

\* POST /products {product_name, price}
UpdateProductByPost ==
    /\ Idle
    /\ \E n \in UpdateNames :
        Handle(UpdateEvent("POST", GoodHeaders,
                           Obj([product_name |-> n, price |-> JNum(5)])),
               EnvOk)

\* PUT /products {product_name, price, update_cost_price}
UpdateProductAndCost ==
    /\ Idle
    /\ \E n \in {JStr(Str_a), JStr(Str_ab), JStr(Str_x)},
          u \in {JBool(TRUE), JBool(FALSE), JNum(1)} :
        Handle(UpdateEvent("PUT", GoodHeaders,
                           Obj([product_name |-> n, price |-> JNum(7),
                                update_cost_price |-> u])),
               EnvOk)

\* PUT /products with a body that is not accepted
UpdateProductInvalid ==
    /\ Idle
    /\ \E b \in {NoBody, BadJson, EmptyObj, Obj([product_name |-> JStr(Str_a)]),
                 Obj([price |-> JNum(5)])}
               \cup {Obj([product_name |-> n, price |-> p]) :
                        n \in {JStr(Str_a), JStr(Str_ab), JStr(Str_x)},
                        p \in BadPrices} :
        Handle(UpdateEvent("PUT", GoodHeaders, b), EnvOk)

\* PUT /products without the right headers, or refused by the ERP
UpdateProductUnauthorised ==
    /\ Idle
    /\ \E n \in {JStr(Str_a), JStr(Str_ab), JStr(Str_x)},
          hs \in {<<>>, WrongSecret, GoodHeaders}, u \in {"false", "raise"} :
        Handle(UpdateEvent("PUT", hs, Obj([product_name |-> n, price |-> JNum(5)])),
               Env(u, 0))

\* PUT /products while an execute call raises
UpdateProductFaulted ==
    /\ Idle
    /\ \E n \in {JStr(Str_a), JStr(Str_A), JStr(Str_ab), JStr(Str_x)}, k \in 1..6 :
        Handle(UpdateEvent("PUT", GoodHeaders,
                           Obj([product_name |-> n, price |-> JNum(5)])),
               Env("ok", k))

NextUpdate ==
    \/ UpdateProduct
    \/ UpdateProductByPost
    \/ UpdateProductAndCost
    \/ UpdateProductInvalid
    \/ UpdateProductUnauthorised
    \/ UpdateProductFaulted
    \/ Deliver

SpecUpdate == InitUpdate /\ [][NextUpdate]_vars

(***************************************************************************)
(* Properties of handle_update_product (checked under SpecUpdate)          *)
(***************************************************************************)
\* the products that name resolves to: those so named, or, when there is
\* none, those whose name contains it, case ignored
Resolved(P, name) ==
    IF ProductsNamed(P, name) # {} THEN ProductsNamed(P, name)
    ELSE {i \in DOMAIN P : IsSubstring(Lower(name), Lower(P[i].name))}

\* the request r names a product: its body has a product_name that is a
\* string and not blank
NamesProduct(r) ==
    /\ r.body.kind = "obj"
    /\ "product_name" \in DOMAIN r.body.f
    /\ r.body.f.product_name.t = "str"
    /\ Strip(r.body.f.product_name.s) # <<>>

ProductNamed(r) == Strip(r.body.f.product_name.s)

HasPrice(r) == "price" \in DOMAIN r.body.f /\ IsPrice(r.body.f.price)

\* C6: an update-product request whose product_name resolves to k > 1
\* products issues no write and leaves every product as it was; when it
\* carries a price, passes authentication and the ERP answers, it is
\* answered 400 with a matches array holding the {id, name} of exactly
\* those k products.
C6_AmbiguousUpdateRejected ==
    [][ (/\ Idle
         /\ HandlerOf(log') = "handle_update_product"
         /\ NamesProduct(req')
         /\ Cardinality(Resolved(products, ProductNamed(req'))) > 1)
        => /\ products' = products
           /\ ~HasOp(log', "write")
           /\ (Served(req', env') /\ HasPrice(req'))
                 => /\ resp'.statusCode = 400
                    /\ "matches" \in DOMAIN resp'.body
                    /\ Len(resp'.body.matches)
                          = Cardinality(Resolved(products, ProductNamed(req')))
                    /\ Range(resp'.body.matches)
                          = {[id |-> i, name |-> products[i].name] :
                                i \in Resolved(products, ProductNamed(req'))} ]_vars

C6_Witness ==
    /\ HandlerOf(log) = "handle_update_product"
    /\ NamesProduct(req)
    /\ ProductNamed(req) = Str_a
    /\ resp.statusCode = 400
    /\ "matches" \in DOMAIN resp.body
    /\ resp.body.matches = <<[id |-> 1, name |-> Str_a], [id |-> 2, name |-> Str_a]>>
    /\ products[1].list_price = 1
    /\ products[2].list_price = 2

\* C7: an update-product request whose product_name matches no product,
\* neither exactly nor as a substring, issues no write; when it carries a
\* price, passes authentication and the ERP answers, it is answered 404 with
\* a suggestion field.
C7_UnknownProductNotFound ==
    [][ (/\ Idle
         /\ HandlerOf(log') = "handle_update_product"
         /\ NamesProduct(req')
         /\ Resolved(products, ProductNamed(req')) = {})
        => /\ products' = products
           /\ ~HasOp(log', "write")
           /\ (Served(req', env') /\ HasPrice(req'))
                 => /\ resp'.statusCode = 404
                    /\ "suggestion" \in DOMAIN resp'.body ]_vars

C7_Witness ==
    /\ HandlerOf(log) = "handle_update_product"
    /\ NamesProduct(req)
    /\ ProductNamed(req) = Str_x
    /\ products # <<>>
    /\ resp.statusCode = 404
    /\ "suggestion" \in DOMAIN resp.body
    /\ ~HasOp(log, "write")

(***************************************************************************)
(* SpecList: list-inventory requests over catalogs of 0 to MaxCatalog      *)
(* products.                                                               *)
(***************************************************************************)
MaxCatalog == 12

NameOf(i) ==
    CASE i % 4 = 1 -> Str_a
      [] i % 4 = 2 -> Str_b
      [] i % 4 = 3 -> Str_A
      [] OTHER -> Str_ab

\* a catalog of n products; with services, every third product is one
Catalog(n, services) ==
    [i \in 1..n |->
        Product(NameOf(i), i, 0,
                IF services /\ i % 3 = 0 THEN "service" ELSE "product",
                IF i % 2 = 0 THEN {1, 2} ELSE IF i % 5 = 0 THEN {2} ELSE {},
                IF i = 2 THEN Str_a ELSE <<>>,
                1 + (i % 2))]

Limits == {<<"1">>, <<"2">>, <<"5">>, <<"1", "2">>, <<"0">>, Str_x}
Offsets == {<<"0">>, <<"1">>, <<"5">>, <<"1", "1">>, <<"1", "2">>, Str_x}
Terms == {Str_a, Str_x}

\* the query string with the parameters that are given (not <<>>)
Query(l, o, t, cat) ==
    [k \in {key \in {"limit", "offset", "search", "category_id"} :
               \/ key = "limit" /\ l # <<>>
               \/ key = "offset" /\ o # <<>>
               \/ key = "search" /\ t # <<>>
               \/ key = "category_id" /\ cat # <<>>} |->
        CASE k = "limit" -> l
          [] k = "offset" -> o
          [] k = "search" -> t
          [] OTHER -> cat]

InitList ==
    /\ \E c \in {<<"", "">>, <<"id0", "sec0">>} :
            CLIENT_ID = c[1] /\ CLIENT_SECRET = c[2]
    /\ \E n \in 0..MaxCatalog, services \in BOOLEAN :
            products = Catalog(n, services)
    /\ tags = <<Tag(Str_b, 1), Tag(Str_a, 2)>>
    /\ req = NoRequest
    /\ env = EnvOk
    /\ resp = NoResponse
    /\ log = <<>>
    /\ inflight = <<>>

\* GET /?limit=&offset=&search=
ListInventory ==
    /\ Idle
    /\ \E l \in Limits \cup {<<>>}, o \in Offsets \cup {<<>>}, t \in Terms \cup {<<>>} :
        Handle(Request("GET", <<>>, GoodHeaders, Query(l, o, t, <<>>), NoBody), EnvOk)

\* GET /?limit=&category_id=
ListInventoryOfCategory ==
    /\ Idle
    /\ \E l \in {<<"2">>, <<"5">>}, cat \in {<<"1">>, <<"2">>, Str_x} :
        Handle(Request("GET", <<>>, GoodHeaders, Query(l, <<>>, <<>>, cat), NoBody),
               EnvOk)

\* POST / and POST /search with the parameters in the body
SearchInventory ==
    /\ Idle
    /\ \E path \in {<<>>, <<"search">>},
          b \in {NoBody, BadJson, EmptyObj,
                 Obj([product_name |-> JStr(Str_a)]),
                 Obj([product_name |-> JStr(Str_b), limit |-> JNum(1)]),
                 Obj([limit |-> JNum(5), offset |-> JNum(7)]),
                 Obj([limit |-> JStr(<<"2">>), offset |-> JNum(1)]),
                 Obj([limit |-> JNull]),
                 Obj([limit |-> JNum(2), category_id |-> JNum(2)]),
                 Obj([product_name |-> JStr(Str_a), category_id |-> JNum(2)])} :
        Handle(Request("POST", path, GoodHeaders, NoQuery, b), EnvOk)

\* GET / without the right headers, or refused by the ERP
ListInventoryUnauthorised ==
    /\ Idle
    /\ \E hs \in {<<>>, WrongSecret, GoodHeaders}, u \in {"false", "raise"} :
        Handle(Request("GET", <<>>, hs, Query(<<"5">>, <<>>, <<>>, <<>>), NoBody),
               Env(u, 0))

\* GET / while an execute call raises
ListInventoryFaulted ==
    /\ Idle
    /\ \E k \in 1..4 :
        Handle(Request("GET", <<>>, GoodHeaders, Query(<<"5">>, <<>>, <<>>, <<>>),
                       NoBody),
               Env("ok", k))

NextList ==
    \/ ListInventory
    \/ ListInventoryOfCategory
    \/ SearchInventory
    \/ ListInventoryUnauthorised
    \/ ListInventoryFaulted
    \/ Deliver

SpecList == InitList /\ [][NextList]_vars

(***************************************************************************)
(* Properties of handle_list_inventory (checked under SpecList)            *)
(***************************************************************************)
\* the integer given for key in the request: in the body of a POST, in the
\* query string otherwise; default when it is not given
Given(r, key, default) ==
    IF r.method = "POST"
    THEN IF key \in DOMAIN r.body.f
         THEN [ok |-> r.body.f[key].t = "num", n |-> r.body.f[key].n]
         ELSE [ok |-> TRUE, n |-> default]
    ELSE IF key \in DOMAIN r.query
         THEN [ok |-> AllDigits(r.query[key]), n |-> DigitsVal(r.query[key])]
         ELSE [ok |-> TRUE, n |-> default]

\* the search term of the request, <<>> when there is none
TermGiven(r) ==
    IF r.method = "POST"
    THEN IF "product_name" \in DOMAIN r.body.f THEN r.body.f.product_name.s
         ELSE <<>>
    ELSE IF "search" \in DOMAIN r.query THEN r.query.search ELSE <<>>

Contains(value, term) == IsSubstring(Lower(term), Lower(value))

\* the stockable products that the request asks for
Asked(P, r) ==
    {i \in DOMAIN P :
        /\ P[i].type = "product"
        /\ TermGiven(r) # <<>> =>
              \/ Contains(P[i].name, TermGiven(r))
              \/ P[i].default_code # <<>> /\ Contains(P[i].default_code, TermGiven(r))
        /\ Given(r, "category_id", 0).n # 0 =>
              P[i].categ_id = Given(r, "category_id", 0).n}

\* C10: list-inventory with limit L >= 1 and offset O >= 0 over a catalog
\* with N matching stockable products, O < N, when the request passes
\* authentication and the ERP answers: data has min(L, N - O) entries,
\* pagination.total_count = N, pagination.limit = L, pagination.offset = O
\* and pagination.has_more = (O + L < N).
C10_Pagination ==
    (/\ ~Idle
     /\ HandlerOf(log) = "handle_list_inventory"
     /\ Served(req, env)
     /\ req.method = "POST" => req.body.kind = "obj"
     /\ Given(req, "limit", 100).ok /\ Given(req, "limit", 100).n >= 1
     /\ Given(req, "offset", 0).ok
     /\ Given(req, "category_id", 0).ok
     /\ Given(req, "offset", 0).n < Cardinality(Asked(products, req)))
    => LET L == Given(req, "limit", 100).n
           O == Given(req, "offset", 0).n
           N == Cardinality(Asked(products, req))
       IN  /\ resp.statusCode = 200
           /\ "pagination" \in DOMAIN resp.body
           /\ Len(resp.body.data) = Min(L, N - O)
           /\ resp.body.pagination.total_count = N
           /\ resp.body.pagination.limit = L
           /\ resp.body.pagination.offset = O
           /\ resp.body.pagination.has_more = (O + L < N)

C10_Witness ==
    /\ HandlerOf(log) = "handle_list_inventory"
    /\ req.method = "GET"
    /\ req.query = Query(<<"5">>, <<"0">>, <<>>, <<>>)
    /\ Cardinality(Asked(products, req)) = 12
    /\ resp.statusCode = 200
    /\ Len(resp.body.data) = 5
    /\ resp.body.pagination.total_count = 12
    /\ resp.body.pagination.has_more = TRUE

\* C11: a list-inventory search whose term matches no product, when the
\* request passes authentication, its limit and offset are numbers that are
\* not negative and the ERP answers, is answered 200 with success true,
\* found false and data the empty list.
C11_NoMatchIsEmptyPage ==
    (/\ ~Idle
     /\ HandlerOf(log) = "handle_list_inventory"
     /\ Served(req, env)
     /\ req.method = "POST" => req.body.kind = "obj"
     /\ Given(req, "limit", 100).ok
     /\ Given(req, "offset", 0).ok
     /\ Given(req, "category_id", 0).ok
     /\ TermGiven(req) # <<>>
     /\ Asked(products, req) = {})
    => /\ resp.statusCode = 200
       /\ resp.body.success = TRUE
       /\ resp.body.found = FALSE
       /\ resp.body.data = <<>>

C11_Witness ==
    /\ HandlerOf(log) = "handle_list_inventory"
    /\ TermGiven(req) = Str_x
    /\ Len(products) = MaxCatalog
    /\ resp.statusCode = 200
    /\ resp.body.found = FALSE
    /\ resp.body.data = <<>>

(***************************************************************************)
(* SpecRoute: requests of every method on every path, with bodies of every *)
(* shape that the routing tells apart.                                     *)
(***************************************************************************)
\* the sets of keys of an object body that the routing tells apart
TagsKeySets == SUBSET {"tag_name", "search", "name"}
ProductsKeySets == SUBSET {"product_name", "price", "name", "cost"}

\* an object body with the keys ks
BodyWith(ks) ==
    Obj([k \in ks |->
            CASE k \in {"price", "cost"} -> JNum(1)
              [] k = "product_name" -> JStr(Str_ab)
              [] OTHER -> JStr(Str_a)])

Shapeless == {NoBody, BadJson, Scalar}

InitRoute ==
    /\ \E c \in {<<"", "">>, <<"id0", "sec0">>} :
            CLIENT_ID = c[1] /\ CLIENT_SECRET = c[2]
    /\ products = CatalogMixed
    /\ tags = <<Tag(Str_b, 1)>>
    /\ req = NoRequest
    /\ env = EnvOk
    /\ resp = NoResponse
    /\ log = <<>>
    /\ inflight = <<>>

\* POST /tags
PostTags ==
    /\ Idle
    /\ \E b \in Shapeless \cup {BodyWith(ks) : ks \in TagsKeySets},
          hs \in {<<>>, GoodHeaders} :
        Handle(Request("POST", <<"tags">>, hs, NoQuery, b), EnvOk)

\* POST /products
PostProducts ==
    /\ Idle
    /\ \E b \in Shapeless \cup {BodyWith(ks) : ks \in ProductsKeySets},
          hs \in {<<>>, GoodHeaders} :
        Handle(Request("POST", <<"products">>, hs, NoQuery, b), EnvOk)

\* PUT /products
PutProducts ==
    /\ Idle
    /\ \E b \in Shapeless \cup {BodyWith(ks) : ks \in ProductsKeySets},
          hs \in {<<>>, GoodHeaders} :
        Handle(Request("PUT", <<"products">>, hs, NoQuery, b), EnvOk)

\* every method on every path
AnyRequest ==
    /\ Idle
    /\ \E m \in Methods, path \in Paths \cup {<<"tags", "1">>, <<"other", "tags">>},
          b \in {NoBody, BodyWith({"name", "price"})},
          hs \in {<<>>, GoodHeaders} :
        Handle(Request(m, path, hs, NoQuery, b), EnvOk)

NextRoute ==
    \/ PostTags
    \/ PostProducts
    \/ PutProducts
    \/ AnyRequest
    \/ Deliver

SpecRoute == InitRoute /\ [][NextRoute]_vars

(***************************************************************************)
(* Properties of the routing (checked under SpecRoute)                     *)
(***************************************************************************)
\* the keys of the JSON body of r, none when the body is no object
KeysOf(r) == IF r.body.kind = "obj" THEN DOMAIN r.body.f ELSE {}

\* the body of r was sent and is JSON
IsJson(r) == r.body.kind \in {"obj", "scalar"}

\* the request was answered status by the dispatcher, no handler having run
Refused(status) ==
    /\ resp.statusCode = status
    /\ HandlerOf(log) = ""
    /\ ~HasOp(log, "check_secret")
    /\ ErpCalls(log) = <<>>

\* C12 as stated: POST /tags with a JSON body containing tag_name or search
\* goes to list/search tags, with name and neither of them to create tag;
\* a JSON body with none of the three keys, a missing body and a body that
\* is not JSON are answered 400 without any handler running.
C12_TagsPostClassified ==
    (~Idle /\ req.method = "POST" /\ req.rawPath = <<"tags">>) =>
        /\ KeysOf(req) \cap {"tag_name", "search"} # {}
              => HandlerOf(log) = "handle_list_tags"
        /\ ("name" \in KeysOf(req) /\ KeysOf(req) \cap {"tag_name", "search"} = {})
              => HandlerOf(log) = "handle_create_tag"
        /\ (IsJson(req) /\ KeysOf(req) \cap {"tag_name", "search", "name"} = {})
              => Refused(400)
        /\ ~IsJson(req) => Refused(400)

\* C13 as stated: POST /products with a JSON body containing product_name
\* and price goes to update product; otherwise with name and cost or price
\* to create product; otherwise it is answered 400 without any handler
\* running; PUT /products goes to update product whatever the body.
C13_ProductsPostClassified ==
    (~Idle /\ req.rawPath = <<"products">> /\ req.method \in {"POST", "PUT"}) =>
        LET update == {"product_name", "price"} \subseteq KeysOf(req)
            create == /\ "name" \in KeysOf(req)
                      /\ KeysOf(req) \cap {"cost", "price"} # {}
        IN  /\ req.method = "PUT" => HandlerOf(log) = "handle_update_product"
            /\ (req.method = "POST" /\ update)
                  => HandlerOf(log) = "handle_update_product"
            /\ (req.method = "POST" /\ ~update /\ create)
                  => HandlerOf(log) = "handle_create_product"
            /\ (req.method = "POST" /\ ~update /\ ~create) => Refused(400)

\* the methods the dispatcher routes by path (line 40)
RoutedMethods == {"GET", "POST", "PUT", "DELETE"}

\* the first segment of the path of r, "" for the root
FirstSegment(r) == IF r.rawPath = <<>> THEN "" ELSE r.rawPath[1]

KnownPath(r) == FirstSegment(r) \in {"", "tags", "search", "products"}

\* a method the path of r does not support
Unsupported(r) ==
    \/ FirstSegment(r) = "search" /\ r.method # "POST"
    \/ KnownPath(r) /\ r.method = "DELETE"
    \/ FirstSegment(r) \in {"", "tags"} /\ r.method = "PUT"
    \/ FirstSegment(r) = "products" /\ r.method = "GET"

\* C14 as stated: a request on a path whose first segment is none of
\* (root), tags, search, products is answered 404, and a request with a
\* method its known path does not support is answered 405, in both cases
\* without a handler, the authenticator or an ERP call.
C14_UnmatchedAsStated ==
    ~Idle =>
        /\ ~KnownPath(req) => Refused(404)
        /\ Unsupported(req) => Refused(405)

\* C14, amended: among the requests with a method GET, POST, PUT or DELETE,
\* an unknown first path segment is answered 404 and a method the known path
\* does not support 405; a method outside those four other than OPTIONS is
\* answered 405 on every path, known or not; none of these cases runs a
\* handler, the authenticator or an ERP call.
C14_UnmatchedRouting ==
    ~Idle =>
        /\ (req.method \in RoutedMethods /\ ~KnownPath(req)) => Refused(404)
        /\ (req.method \in RoutedMethods /\ Unsupported(req)) => Refused(405)
        /\ req.method \notin RoutedMethods \cup {"OPTIONS"} => Refused(405)

C14_Witness ==
    /\ req.method = "GET"
    /\ req.rawPath = <<"other", "tags">>
    /\ req.headers = GoodHeaders
    /\ Refused(404)

(***************************************************************************)
(* Failures of the ERP session and escaping exceptions (checked under Spec)*)
(***************************************************************************)
\* C15: when the ERP's authenticate call answers a falsy session identifier
\* or raises, the request ends with status 500 and no execute call (search,
\* search_count, read, create, write) was issued for it.
C15_NoSessionNoExecute ==
    (~Idle /\ HasOp(log, "authenticate") /\ env.uid # "ok") =>
        /\ resp.statusCode = 500
        /\ ExecCalls(log) = <<>>

C15_Witness ==
    /\ HandlerOf(log) = "handle_create_product"
    /\ HasOp(log, "authenticate")
    /\ env.uid = "false"
    /\ resp.statusCode = 500
    /\ ExecCalls(log) = <<>>

\* C16: an exception that escapes the routing or a handler to the dispatcher
\* is answered with status 500 and the body {error: "Internal server
\* error"} and nothing else; the dispatcher hands its caller a response, never
\* an exception, for every request with a method GET, POST, PUT or DELETE.
C16_EscapingExceptionIs500 ==
    [][(Idle /\ req'.method \in RoutedMethods) =>
          /\ ~lambda_handler(products, tags, req', env').raised
          /\ Route(products, tags, req', env').raised =>
                resp' = ErrorResponse(500, "Internal server error")]_vars

C16_Witness ==
    /\ HandlerOf(log) = "handle_update_product"
    /\ req.method = "PUT"
    /\ req.body.kind = "scalar"
    /\ ErpCalls(log) # <<>>
    /\ resp = ErrorResponse(500, "Internal server error")

(***************************************************************************)
(* Non-numeric paging parameters (checked under SpecList)                  *)
(***************************************************************************)
\* the request gives for key something that is not a number
NonNumeric(r, key) ==
    IF r.method = "POST"
    THEN /\ r.body.kind = "obj"
         /\ key \in DOMAIN r.body.f
         /\ ~ToNumber(r.body.f[key]).ok
    ELSE /\ key \in DOMAIN r.query
         /\ ~ParseNum(r.query[key]).ok

\* C17 as stated: a listing of the inventory or of the tags that is given a
\* non-numeric limit or offset, in the query string of a GET or in the JSON
\* body of a POST, is answered 400 and issues no search.
C17_NonNumericIs400 ==
    (/\ ~Idle
     /\ HandlerOf(log) \in {"handle_list_inventory", "handle_list_tags"}
     /\ Served(req, env)
     /\ NonNumeric(req, "limit") \/ NonNumeric(req, "offset"))
    => /\ resp.statusCode = 400
       /\ ~HasOp(log, "search")

(***************************************************************************)
(* Mutating calls (checked under Spec, which reaches every handler)        *)
(***************************************************************************)
ListHandlers == {"handle_list_inventory", "handle_list_tags"}

\* C18: a request issues at most one mutating call (one create or one
\* write) whatever the path it takes through its handler, and a listing of
\* the inventory or of the tags issues none.
C18_AtMostOneMutation ==
    ~Idle =>
        /\ Len(MutatingCalls(log)) <= 1
        /\ HandlerOf(log) \in ListHandlers => MutatingCalls(log) = <<>>

C18_Witness ==
    /\ HandlerOf(log) = "handle_update_product"
    /\ Len(MutatingCalls(log)) = 1
    /\ MutatingCalls(log)[1].op = "write"
    /\ Len(ExecCalls(log)) > 2
    /\ resp.statusCode = 200

\* C19: everything that can refuse a request comes before its mutating
\* call: a request answered 400, 401, 404 or 409 has issued no create and
\* no write.
C19_RefusedBeforeMutation ==
    (~Idle /\ resp.statusCode \in {400, 401, 404, 409}) =>
        MutatingCalls(log) = <<>>

C19_Witness ==
    /\ HandlerOf(log) = "handle_create_product"
    /\ resp.statusCode = 409
    /\ HasOp(log, "search")
    /\ MutatingCalls(log) = <<>>

(***************************************************************************)
(* SpecRace: two invocations of the create handlers served in parallel by  *)
(* the host.  Each execute call is one atomic step at the ERP; between two *)
(* calls of one invocation the other invocation may run.  An invocation    *)
(* keeps its request r, its position pc and its response status.           *)
(***************************************************************************)
Calls == {1, 2}

NoCall == [kind |-> "", r |-> NoRequest, pc |-> "idle", status |-> 0]

RaceNames == {Str_a, Str_a_padded, Str_b}

CreateTagRequest(name) ==
    Request("POST", <<"tags">>, GoodHeaders, NoQuery, Obj([name |-> JStr(name)]))

CreateProductRequest(name) ==
    Request("POST", <<"products">>, GoodHeaders, NoQuery,
            Obj([name |-> JStr(name), price |-> JNum(1)]))

\* the invocations of kind that may still create a record
Pending(kind) ==
    {j \in Calls : inflight[j].kind = kind /\ inflight[j].pc \in {"check", "create"}}

InitRace ==
    /\ CLIENT_ID = "id0"
    /\ CLIENT_SECRET = "sec0"
    /\ \/ products = <<>> /\ tags = <<>>
       \/ products = <<Product(Str_b, 1, 0, "product", {}, <<>>, 1)>>
          /\ tags = <<Tag(Str_b, 1)>>
    /\ req = NoRequest
    /\ env = EnvOk
    /\ resp = NoResponse
    /\ log = <<>>
    /\ inflight = [i \in Calls |-> NoCall]

\* lines 495-530: a create-tag request is routed, authenticated and parsed;
\* nothing of this touches the ERP tables.  The requests kept are those that
\* pass: the handler run alone on an empty table answers them 201.
ArriveCreateTag(i) ==
    /\ inflight[i].pc = "idle"
    /\ Len(tags) + Cardinality(Pending("tag")) < MaxTags
    /\ \E name \in RaceNames :
        /\ lambda_handler(<<>>, <<>>, CreateTagRequest(name), EnvOk).resp.statusCode = 201
        /\ inflight' = [inflight EXCEPT ![i] =
                [kind |-> "tag", r |-> CreateTagRequest(name),
                 pc |-> "check", status |-> 0]]
    /\ UNCHANGED <<products, tags, CLIENT_ID, CLIENT_SECRET, req, env, resp, log>>

\* lines 588-677: the same for a create-product request
ArriveCreateProduct(i) ==
    /\ inflight[i].pc = "idle"
    /\ Len(products) + Cardinality(Pending("product")) < MaxProducts
    /\ \E name \in RaceNames :
        /\ lambda_handler(<<>>, <<>>, CreateProductRequest(name), EnvOk).resp.statusCode = 201
        /\ inflight' = [inflight EXCEPT ![i] =
                [kind |-> "product", r |-> CreateProductRequest(name),
                 pc |-> "check", status |-> 0]]
    /\ UNCHANGED <<products, tags, CLIENT_ID, CLIENT_SECRET, req, env, resp, log>>

\* lines 532-544: the search of the duplicate check, on the table as it
\* stands when the call reaches the ERP
CheckTag(i) ==
    /\ inflight[i].kind = "tag"
    /\ inflight[i].pc = "check"
    /\ LET v == TagData(inflight[i].r.body.f)
       IN  inflight' = [inflight EXCEPT ![i] =
                IF ErpSearch(tags, CreateTagDomain(v.name), 0, 0, FALSE) # <<>>
                THEN [@ EXCEPT !.pc = "done", !.status = 409]
                ELSE [@ EXCEPT !.pc = "create"]]
    /\ UNCHANGED <<products, tags, CLIENT_ID, CLIENT_SECRET, req, env, resp, log>>

\* lines 546-575: the create, and the 201
CreateTagCall(i) ==
    /\ inflight[i].kind = "tag"
    /\ inflight[i].pc = "create"
    /\ tags' = ErpCreateTag(tags, TagData(inflight[i].r.body.f))
    /\ inflight' = [inflight EXCEPT ![i] = [@ EXCEPT !.pc = "done", !.status = 201]]
    /\ UNCHANGED <<products, CLIENT_ID, CLIENT_SECRET, req, env, resp, log>>

\* lines 679-691: the search of the duplicate check
CheckProduct(i) ==
    /\ inflight[i].kind = "product"
    /\ inflight[i].pc = "check"
    /\ LET v == ProductValues(inflight[i].r.body.f)
       IN  inflight' = [inflight EXCEPT ![i] =
                IF ErpSearch(products, CreateProductDomain(v.product_name), 0, 0, FALSE)
                        # <<>>
                THEN [@ EXCEPT !.pc = "done", !.status = 409]
                ELSE [@ EXCEPT !.pc = "create"]]
    /\ UNCHANGED <<products, tags, CLIENT_ID, CLIENT_SECRET, req, env, resp, log>>

\* lines 693-711: the create
CreateProductCall(i) ==
    /\ inflight[i].kind = "product"
    /\ inflight[i].pc = "create"
    /\ LET data == inflight[i].r.body.f
       IN  products' = ErpCreateProduct(products, ProductData(ProductValues(data), data))
    /\ inflight' = [inflight EXCEPT ![i] = [@ EXCEPT !.pc = "read"]]
    /\ UNCHANGED <<tags, CLIENT_ID, CLIENT_SECRET, req, env, resp, log>>

\* lines 713-752: the read-back of the created record, and the 201
ReadProduct(i) ==
    /\ inflight[i].kind = "product"
    /\ inflight[i].pc = "read"
    /\ inflight' = [inflight EXCEPT ![i] = [@ EXCEPT !.pc = "done", !.status = 201]]
    /\ UNCHANGED <<products, tags, CLIENT_ID, CLIENT_SECRET, req, env, resp, log>>

\* the response of every finished invocation goes back to its client
DeliverAll ==
    /\ \E i \in Calls : inflight[i].pc = "done"
    /\ \A i \in Calls : inflight[i].pc \in {"idle", "done"}
    /\ inflight' = [i \in Calls |-> NoCall]
    /\ UNCHANGED <<products, tags, CLIENT_ID, CLIENT_SECRET, req, env, resp, log>>

NextRace ==
    \/ \E i \in Calls : ArriveCreateTag(i)
    \/ \E i \in Calls : ArriveCreateProduct(i)
    \/ \E i \in Calls : CheckTag(i)
    \/ \E i \in Calls : CreateTagCall(i)
    \/ \E i \in Calls : CheckProduct(i)
    \/ \E i \in Calls : CreateProductCall(i)
    \/ \E i \in Calls : ReadProduct(i)
    \/ DeliverAll

SpecRace == InitRace /\ [][NextRace]_vars

\* the name an invocation creates a record under
CreatedName(call) ==
    IF call.kind = "tag" THEN TagData(call.r.body.f).name
    ELSE ProductValues(call.r.body.f).product_name

\* the records of the kind and the name of call
RecordsNamed(call) ==
    IF call.kind = "tag" THEN TagsNamed(tags, CreatedName(call))
    ELSE ProductsNamed(products, CreatedName(call))

\* C20 as stated: of two create-tag requests, or two create-product
\* requests, that carry the same name and are served in parallel, at most
\* one is answered 201, and afterwards at most one record has that name.
C20_OneCreatePerName ==
    \A i, j \in Calls :
        (/\ i # j
         /\ inflight[i].pc = "done" /\ inflight[j].pc = "done"
         /\ inflight[i].kind = inflight[j].kind
         /\ CreatedName(inflight[i]) = CreatedName(inflight[j]))
        => /\ ~(inflight[i].status = 201 /\ inflight[j].status = 201)
           /\ Cardinality(RecordsNamed(inflight[i])) <= 1

(***************************************************************************)
(* Errors after the mutating call (checked under SpecCreate)               *)
(***************************************************************************)
MutatingHandlers ==
    {"handle_create_tag", "handle_create_product", "handle_update_product"}

\* C21 as stated: a create-tag, create-product or update-product request
\* that is answered with an error status (400 or above) has created no
\* record and changed no record of the ERP, also when a call issued after
\* the mutating call (the read-back, the read of the tag details) fails.
C21_ErrorLeavesErpUnchanged ==
    [][(/\ Idle
        /\ HandlerOf(log') \in MutatingHandlers
        /\ resp'.statusCode >= 400)
       => (products' = products /\ tags' = tags)]_vars

(***************************************************************************)
(* The envelope of a listing (checked under SpecList)                      *)
(***************************************************************************)
\* the search term of a list-tags request, <<>> when there is none
TagTermGiven(r) ==
    IF r.method = "POST"
    THEN Get(r.body.f, "tag_name", Get(r.body.f, "search", JStr(<<>>))).s
    ELSE Get(r.query, "search", <<>>)

\* the tags that the request asks for
TagsAsked(T, r) ==
    {i \in DOMAIN T : TagTermGiven(r) # <<>> => Contains(T[i].name, TagTermGiven(r))}

\* C22 as stated: every 200 response of list-inventory and of list-tags,
\* an empty page included, carries a pagination object whose total_count is
\* the number of records that match the filter, whatever limit and offset.
C22_TotalCountAlways ==
    (/\ ~Idle
     /\ HandlerOf(log) \in ListHandlers
     /\ resp.statusCode = 200)
    => /\ "pagination" \in DOMAIN resp.body
       /\ resp.body.pagination.total_count =
             IF HandlerOf(log) = "handle_list_inventory"
             THEN Cardinality(Asked(products, req))
             ELSE Cardinality(TagsAsked(tags, req))

(***************************************************************************)
(* The tag ids and the price of a create-product (checked under SpecCreate)*)
(***************************************************************************)
\* tag_ids is an array and every id in it is the id of a tag
ArrayOfTagIds(tag_ids, T) ==
    /\ tag_ids.t = "list"
    /\ Range(tag_ids.l) \subseteq DOMAIN T

\* C23 as stated: a create-product request that carries tag_ids, and is
\* acceptable otherwise, passes the validation of the tags (and goes on to
\* the duplicate check: 201 or 409) if and only if tag_ids is an array and
\* every id in it is the id of an existing tag; otherwise it is answered
\* 400 and creates nothing.
C23_TagIdsValidatedIff ==
    (/\ ~Idle
     /\ HandlerOf(log) = "handle_create_product"
     /\ Served(req, env)
     /\ "tag_ids" \in DOMAIN req.body.f
     /\ req.body.f.name.t = "str" /\ Strip(req.body.f.name.s) # <<>>
     /\ IsPrice(req.body.f.price))
    => IF ArrayOfTagIds(req.body.f.tag_ids, tags)
       THEN resp.statusCode \in {201, 409}
       ELSE resp.statusCode = 400 /\ MutatingCalls(log) = <<>>

\* a value that is given and is not empty: neither null nor ""
NonEmpty(v) == v # JNull /\ v # JStr(<<>>)

\* the first non-empty of the fields price and cost of a body that has one
FirstNonEmptyPrice(data) ==
    IF "price" \in DOMAIN data /\ NonEmpty(data.price) THEN data.price
    ELSE data.cost

\* C24 as stated: create-product takes the sale price from the first
\* non-empty of price and cost, price preferred: a request that is
\* acceptable otherwise and names no existing product creates the product
\* with the price when both are given, with the cost when only cost is
\* given, and with the cost when price is given as null or "" and cost is a
\* valid number.
C24_FirstNonEmptyPrice ==
    (/\ ~Idle
     /\ HandlerOf(log) = "handle_create_product"
     /\ Served(req, env)
     /\ req.body.f.name.t = "str" /\ Strip(req.body.f.name.s) # <<>>
     /\ DOMAIN req.body.f \subseteq {"name", "price", "cost"}
     /\ \/ "cost" \in DOMAIN req.body.f
        \/ NonEmpty(req.body.f.price)
     /\ IsPrice(FirstNonEmptyPrice(req.body.f))
     /\ resp.statusCode # 409)
    => /\ resp.statusCode = 201
       /\ products[Len(products)].list_price = ToNumber(FirstNonEmptyPrice(req.body.f)).n
       /\ resp.body.data.sale_price = ToNumber(FirstNonEmptyPrice(req.body.f)).n

(***************************************************************************)
(* Resolution and effect of an update (checked under SpecUpdate)           *)
(***************************************************************************)
\* the products whose name contains name, case ignored
ProductsContaining(P, name) ==
    {i \in DOMAIN P : IsSubstring(Lower(name), Lower(P[i].name))}

\* the searches of a log, in order
Searches(lg) == SelectSeq(lg, LAMBDA ev : ev.op = "search")

\* the request wrote the price it carries to product i, and to no other
Updated(i, P, P2, lg, r) ==
    /\ Len(MutatingCalls(lg)) = 1
    /\ MutatingCalls(lg)[1].op = "write"
    /\ MutatingCalls(lg)[1].arg.id = i
    /\ P2[i].list_price = ToNumber(r.body.f.price).n
    /\ \A j \in DOMAIN P : j # i => P2[j] = P[j]

\* C25: an update-product request that names a product and carries a
\* price, passes authentication and meets no ERP fault, searches by exact
\* name first and by substring only when the exact search finds nothing.
\* When exactly one product bears the name, that product is updated, whatever
\* other products contain the name; when none bears it and exactly one
\* contains it, that one is updated.
C25_ExactBeforeSubstring ==
    [][ (/\ Idle
         /\ HandlerOf(log') = "handle_update_product"
         /\ Served(req', env')
         /\ NamesProduct(req')
         /\ HasPrice(req'))
        => LET name == ProductNamed(req')
               exact == ProductsNamed(products, name)
               partial == ProductsContaining(products, name)
               searches == Searches(log')
           IN  /\ Len(searches) = IF exact # {} THEN 1 ELSE 2
               /\ searches[1].arg = <<Clause("name", "=", name)>>
               /\ Len(searches) = 2 =>
                     searches[2].arg = <<Clause("name", "ilike", name)>>
               /\ Cardinality(exact) = 1 =>
                     /\ resp'.statusCode = 200
                     /\ \E i \in exact : Updated(i, products, products', log', req')
               /\ (exact = {} /\ Cardinality(partial) = 1) =>
                     /\ resp'.statusCode = 200
                     /\ \E i \in partial : Updated(i, products, products', log', req') ]_vars

\* the product named A is updated although ab contains the name too
C25_Witness ==
    /\ HandlerOf(log) = "handle_update_product"
    /\ NamesProduct(req)
    /\ ProductNamed(req) = Str_A
    /\ Cardinality(ProductsContaining(products, Str_A)) = 2
    /\ Len(Searches(log)) = 1
    /\ resp.statusCode = 200
    /\ MutatingCalls(log)[1].arg.id = 2

\* the value of update_cost_price in the body of r, FALSE when absent
CostFlag(r) == Get(r.body.f, "update_cost_price", JBool(FALSE))

\* C26: an update-product request answered 200 has written to one product
\* only: its sale price when update_cost_price is absent or false, its sale
\* price and its cost price, both the new price, when it is true.  The other
\* fields of that product (its name and tags among them), every other
\* product and the tags stay as they were; the response reports
\* previous_price as the sale price before the write and new_price as the
\* requested price.
C26_UpdateFrame ==
    [][ (/\ Idle
         /\ HandlerOf(log') = "handle_update_product"
         /\ resp'.statusCode = 200
         /\ CostFlag(req') \in {JBool(FALSE), JBool(TRUE)})
        => LET p == ToNumber(req'.body.f.price).n
               w == MutatingCalls(log')[1]
               i == w.arg.id
               both == CostFlag(req') = JBool(TRUE)
           IN  /\ Len(MutatingCalls(log')) = 1
               /\ w.op = "write"
               /\ i \in Resolved(products, ProductNamed(req'))
               /\ DOMAIN w.arg.vals =
                     IF both THEN {"list_price", "standard_price"} ELSE {"list_price"}
               /\ products'[i] =
                     [products[i] EXCEPT
                        !.list_price = p,
                        !.standard_price = IF both THEN p ELSE @]
               /\ Len(products') = Len(products)
               /\ \A j \in DOMAIN products : j # i => products'[j] = products[j]
               /\ tags' = tags
               /\ resp'.body.data.previous_price = products[i].list_price
               /\ resp'.body.data.new_price = p ]_vars

C26_Witness ==
    /\ HandlerOf(log) = "handle_update_product"
    /\ resp.statusCode = 200
    /\ CostFlag(req) = JBool(TRUE)
    /\ req.body.f.price = JNum(7)
    /\ resp.body.data.previous_price = 3
    /\ resp.body.data.new_price = 7
    /\ products[3].standard_price = 7
    /\ products[3].product_tag_ids = {1}

(***************************************************************************)
(* Tags and domain of a listing (checked under SpecList)                   *)
(***************************************************************************)
\* the reads of tag details of a log, in order
TagReads(lg) ==
    SelectSeq(lg, LAMBDA ev : ev.op = "read" /\ ev.model = "product.tag")

\* the ids of the products of the page answered
PageIds(response) == {response.body.data[k].id : k \in DOMAIN response.body.data}

\* C27: a list-inventory request reads tag details at most once.  When it
\* is answered with a page of products, the read carries every tag id that
\* a product of the page references, each exactly once, and there is no read
\* when no product of the page has tags; each product's tags in the
\* response are the {id, name, color} of its own tag ids and of no other.
C27_TagsResolvedOnce ==
    (~Idle /\ HandlerOf(log) = "handle_list_inventory") =>
        /\ Len(TagReads(log)) <= 1
        /\ (resp.statusCode = 200 /\ resp.body.data # <<>>) =>
              LET referenced ==
                      UNION {products[i].product_tag_ids : i \in PageIds(resp)}
              IN  /\ referenced = {} <=> TagReads(log) = <<>>
                  /\ TagReads(log) # <<>> =>
                        /\ Range(TagReads(log)[1].arg) = referenced
                        /\ Len(TagReads(log)[1].arg) = Cardinality(referenced)
                  /\ \A k \in DOMAIN resp.body.data :
                        LET entry == resp.body.data[k]
                            own == products[entry.id].product_tag_ids
                        IN  /\ Len(entry.tags) = Cardinality(own)
                            /\ {entry.tags[t].id : t \in DOMAIN entry.tags} = own
                            /\ \A t \in DOMAIN entry.tags :
                                  entry.tags[t] =
                                      [id |-> entry.tags[t].id,
                                       name |-> tags[entry.tags[t].id].name,
                                       color |-> tags[entry.tags[t].id].color]

\* a page on which two products share their tags and one has none
C27_Witness ==
    /\ HandlerOf(log) = "handle_list_inventory"
    /\ resp.statusCode = 200
    /\ {2, 4} \subseteq PageIds(resp)
    /\ \E i \in PageIds(resp) : products[i].product_tag_ids = {}
    /\ Len(TagReads(log)) = 1
    /\ TagReads(log)[1].arg = <<1, 2>>

\* a category id is given with the request
CategoryGiven(r) ==
    IF r.method = "POST"
    THEN "category_id" \in DOMAIN r.body.f /\ Truthy(r.body.f.category_id)
    ELSE "category_id" \in DOMAIN r.query

\* the calls of op on product.product of a log, in order
ProductCalls(lg, op) ==
    SelectSeq(lg, LAMBDA ev : ev.op = op /\ ev.model = "product.product")

C29_OpenMode ==
    (~Idle /\ HandlerOf(log) # "") =>
        /\ HasOp(log, "check_secret") <=> (CLIENT_ID # "" /\ CLIENT_SECRET # "")
        /\ ~(CLIENT_ID # "" /\ CLIENT_SECRET # "") =>
              /\ resp.statusCode # 401
              /\ HasOp(log, "authenticate")

\* a client id alone is configured and the request carries a wrong secret
C29_Witness ==
    /\ CLIENT_ID = "id0"
    /\ CLIENT_SECRET = ""
    /\ req.headers = WrongSecret
    /\ HandlerOf(log) = "handle_list_inventory"
    /\ ~HasOp(log, "check_secret")
    /\ HasOp(log, "authenticate")
    /\ resp.statusCode = 200

(***************************************************************************)
(* Trimmed names (checked under SpecTags)                                  *)
(***************************************************************************)
CreateHandlers == {"handle_create_tag", "handle_create_product"}

\* the names of the records of the model that a create request adds to
NamesOf(P, T, lg) ==
    IF HandlerOf(lg) = "handle_create_tag"
    THEN [i \in DOMAIN T |-> T[i].name]
    ELSE [i \in DOMAIN P |-> P[i].name]

\* the request carries a string name and values that pass the other
\* validations, passes the authenticator, and the ERP answers every call
WellFormedCreate(r, e) ==
    /\ r.body.kind = "obj"
    /\ "name" \in DOMAIN r.body.f
    /\ r.body.f.name.t = "str"
    /\ DOMAIN r.body.f \subseteq {"name", "color", "price"}
    /\ "price" \in DOMAIN r.body.f =>
          (r.body.f.price.t = "num" /\ r.body.f.price.n >= 0)
    /\ Served(r, e)

\* C30: create-tag and create-product trim the name before the duplicate
\* check and before the create: a name that is empty once trimmed is
\* answered 400 and nothing is created; a name whose trimmed form is the
\* name of an existing record is answered 409 and nothing is created;
\* otherwise one record is created, and its name, the name searched for,
\* the name handed to create and the name in the response are the trimmed
\* name.
C30_NameTrimmed ==
    [][ (/\ Idle
         /\ HandlerOf(log') \in CreateHandlers
         /\ WellFormedCreate(req', env'))
        => LET name == Strip(req'.body.f.name.s)
               old == NamesOf(products, tags, log')
               new == NamesOf(products', tags', log')
               searches == SelectSeq(ExecCalls(log'), LAMBDA ev : ev.op = "search")
               creates == SelectSeq(ExecCalls(log'), LAMBDA ev : ev.op = "create")
           IN  /\ \A k \in DOMAIN searches :
                     searches[k].arg = <<Clause("name", "=", name)>>
               /\ \A k \in DOMAIN creates : creates[k].arg.name = name
               /\ IF name = <<>>
                  THEN /\ resp'.statusCode = 400
                       /\ products' = products /\ tags' = tags
                       /\ searches = <<>> /\ creates = <<>>
                  ELSE IF \E i \in DOMAIN old : old[i] = name
                  THEN /\ resp'.statusCode = 409
                       /\ products' = products /\ tags' = tags
                       /\ creates = <<>>
                  ELSE /\ resp'.statusCode = 201
                       /\ Len(new) = Len(old) + 1
                       /\ new[Len(new)] = name
                       /\ resp'.body.data.name = name
                       /\ Len(creates) = 1 ]_vars

\* " a " was posted as a tag and as a product: both are stored as "a", and
\* the second " a " of the product is answered 409
C30_Witness ==
    /\ HandlerOf(log) = "handle_create_product"
    /\ req.body.f.name = JStr(Str_a_padded)
    /\ resp.statusCode = 409
    /\ products # <<>> /\ products[1].name = Str_a
    /\ \E i \in DOMAIN tags : tags[i].name = Str_a
    /\ \A i \in DOMAIN tags : tags[i].name # Str_a_padded

====
